---- MODULE Spec2Model ----
(***************************************************************************)
(* Model of the run ledger, the scoring engine and the liveranking         *)
(* aggregator of NiskuT/cross-api.                                         *)
(*                                                                         *)
(* The relational store is modelled by four tables of one competition      *)
(* (participants, scales, runs, liverankings).  Every action is one call   *)
(* of a service or repository method, translated statement by statement.   *)
(***************************************************************************)
EXTENDS Integers, Sequences, FiniteSets, TLC

VARIABLES participants, scales, runs, liverankings, lastOp, listing,
          attempts, now, pending, admitted, calls

vars == <<participants, scales, runs, liverankings, lastOp, listing,
          attempts, now, pending, admitted, calls>>

---------------------------------------------------------------------------
(* Bounds of the exploration *)

\* runs created in the full write-side specification
MaxRuns == 2
\* runs created in the create-only specification
MaxCreated == 3
\* highest page number of a listing request
MaxPage == 3

(* Program constants *)

MaxInt32 == 2147483647
DefaultPageSize == 10
DefaultPageNumber == 1

MinInt32 == (-MaxInt32) - 1

\* the single competition the tables belong to (it exists from the start)
CompetitionID == 1

---------------------------------------------------------------------------
(* Rate limiter of the login and forgot-password routes                    *)
(* (internal/server/middlewares/rate_limiter.go).  Time is counted in      *)
(* minutes.  attempts is the limiter's map from "endpoint:ip" to the       *)
(* stored timestamps, now is the wall clock, pending counts the login      *)
(* requests that passed the limiter and are still in the handler, and      *)
(* admitted is the history of the requests the limiter let through.        *)

\* requests let through in one behaviour
MaxAdmitted == 6

LoginMaxAttempts == 5
LoginWindow == 5
ForgotPasswordMaxAttempts == 3
ForgotPasswordWindow == 60
CleanupInterval == 10
CleanupBuffer == 5

ClientIPs == {"10.0.0.1", "10.0.0.2"}

\* key := endpoint + ":" + clientIP
LimiterKey(endpoint, clientIP) == endpoint \o ":" \o clientIP

limits ==
    [endpoint \in {"login", "forgot-password"} |->
        IF endpoint = "login"
        THEN [MaxAttempts |-> LoginMaxAttempts, Window |-> LoginWindow]
        ELSE [MaxAttempts |-> ForgotPasswordMaxAttempts,
              Window |-> ForgotPasswordWindow]]

LimiterKeys == {LimiterKey(endpoint, ip) : endpoint \in DOMAIN limits, ip \in ClientIPs}

rateVars == <<attempts, now, pending, admitted>>

\* the tables and the last listing, which the limiter never touches
tableVars == <<participants, scales, runs, liverankings, listing>>

\* calls is the set of store-level calls in progress: for every caller the
\* statement it is at and what it has read so far.  The handlers run the
\* calls of different requests on different goroutines.
Callers == {"create1", "create2", "recalculate"}

IdleCall == [pc |-> "idle"]

NoCalls == [p \in Callers |-> IdleCall]

NewRateLimiter ==
    /\ attempts = [key \in {} |-> << >>]
    /\ now = 0
    /\ pending = [ip \in ClientIPs |-> 0]
    /\ admitted = [key \in LimiterKeys |-> << >>]

Dossards == 1..12
Categories == {"junior", "senior"}
Zones == {"A", "B"}

NoParticipant == [absent |-> "participant"]
NoScale == [absent |-> "scale"]
NoEntry == [absent |-> "liveranking"]
NoListing == [absent |-> "listing"]

---------------------------------------------------------------------------
(* Go int32 arithmetic: += on int32 wraps around modulo 2^32.  The sum is   *)
(* computed without leaving the 32-bit range.                               *)

Add32(a, b) ==
    IF a > 0 /\ b > 0 /\ a > MaxInt32 - b
        THEN (a + MinInt32) + (b + MinInt32)
    ELSE IF a < 0 /\ b < 0 /\ a < MinInt32 - b
        THEN (a - MinInt32) + (b - MinInt32)
    ELSE a + b

---------------------------------------------------------------------------
(* Inputs *)

ScaleData(p1, p2, p3, p4, p5, p6) ==
    [points_door1 |-> p1, points_door2 |-> p2, points_door3 |-> p3,
     points_door4 |-> p4, points_door5 |-> p5, points_door6 |-> p6]

RunData(d1, d2, d3, d4, d5, d6, pen, chrono) ==
    [door1 |-> d1, door2 |-> d2, door3 |-> d3, door4 |-> d4, door5 |-> d5,
     door6 |-> d6, penality |-> pen, chrono_sec |-> chrono]

\* scale rows the admin requests carry
ScaleChoices == { ScaleData(10, 0, 0, 0, 0, 0), ScaleData(1, 2, 3, 4, 5, 6) }

\* scale rows of the scoring specification: models.ScaleInput accepts any
\* int32, so large door values are inputs too
WideScaleChoices ==
    ScaleChoices \cup
    { ScaleData(MaxInt32, 1, 0, 0, 0, 0),
      ScaleData(1000000000, 1000000000, 1000000000, 0, 0, 0),
      ScaleData(0, 0, 0, 0, 0, MaxInt32) }

\* run bodies of the full write-side specification
LedgerRunChoices ==
    { RunData(TRUE, FALSE, FALSE, FALSE, FALSE, FALSE, 0, 30),
      RunData(FALSE, FALSE, FALSE, FALSE, FALSE, FALSE, 5, 30) }

\* run bodies of the scoring specification: every combination of doors
AllDoorRuns ==
    { RunData(d1, d2, d3, d4, d5, d6, 0, 30) :
        d1 \in BOOLEAN, d2 \in BOOLEAN, d3 \in BOOLEAN,
        d4 \in BOOLEAN, d5 \in BOOLEAN, d6 \in BOOLEAN }

\* run_number of a create request: not set (<= 0) or explicit
ExplicitRunNumber == 5
RunNumberInputs == {-1, 0, ExplicitRunNumber}

\* run numbers the update and delete requests name
TargetRunNumbers == 1..(ExplicitRunNumber + MaxRuns - 1)

\* participants the registration requests carry
ParticipantChoices ==
    { [category |-> "junior", gender |-> "H"], [category |-> "senior", gender |-> "F"] }

\* participants the write-side requests name
LedgerDossards == {1, 2}

\* the scale requests name one zone of one category: the other zones and
\* categories never get a scale
ScaleCategories == {"junior"}
ScaleZones == {"A"}

\* create requests RunService.CreateRun rejects as invalid run data
InvalidRunRequests ==
    { [competition_id |-> 0, dossard |-> 1, zone |-> "A"],
      [competition_id |-> CompetitionID, dossard |-> 0, zone |-> "A"],
      [competition_id |-> CompetitionID, dossard |-> 1, zone |-> ""] }

RunRow(d, n, zone, data) ==
    [dossard |-> d, run_number |-> n, zone |-> zone,
     door1 |-> data.door1, door2 |-> data.door2, door3 |-> data.door3,
     door4 |-> data.door4, door5 |-> data.door5, door6 |-> data.door6,
     penality |-> data.penality, chrono_sec |-> data.chrono_sec]

---------------------------------------------------------------------------
(* Store reads *)

\* faulty variant: a lookup that never misses
GetParticipantAlwaysFound(cid, d) ==
    IF cid = CompetitionID /\ d \in Dossards /\ participants[d] # NoParticipant
        THEN participants[d]
        ELSE [category |-> "junior", gender |-> "H"]

\* SQLParticipantRepository.GetParticipant: the row, or ErrParticipantNotFound
GetParticipant(cid, d) ==
    IF cid = CompetitionID /\ d \in Dossards THEN participants[d] ELSE NoParticipant

\* faulty variant: a missing scale read as a scale of zeroes
GetScaleOrZero(cid, category, zone) ==
    IF cid = CompetitionID /\ <<category, zone>> \in DOMAIN scales
          /\ scales[<<category, zone>>] # NoScale
        THEN scales[<<category, zone>>]
        ELSE ScaleData(0, 0, 0, 0, 0, 0)

\* SQLScaleRepository.GetScale: the row, or ErrScaleNotFound
GetScale(cid, category, zone) ==
    IF cid = CompetitionID /\ <<category, zone>> \in DOMAIN scales
        THEN scales[<<category, zone>>]
        ELSE NoScale

RunsOf(cid, d) == { r \in runs : cid = CompetitionID /\ r.dossard = d }

SetMax(S) == CHOOSE x \in S : \A y \in S : y <= x

\* faulty variant: COUNT(*) in place of MAX(run_number)
MaxRunNumberByCount(cid, d) == Cardinality(RunsOf(cid, d))

\* SELECT COALESCE(MAX(run_number), 0) FROM runs WHERE competition_id, dossard
MaxRunNumber(cid, d) ==
    IF RunsOf(cid, d) = {} THEN 0
    ELSE SetMax({ r.run_number : r \in RunsOf(cid, d) })

GetRun(cid, n, d) == { r \in RunsOf(cid, d) : r.run_number = n }

---------------------------------------------------------------------------
(* Scoring: the three places that turn a run and a scale into points *)

\* RunService.CreateRun, "Calculate points based on doors passed and scale"
CreateRunPoints(run, scale) ==
    LET p0 == 0
        p1 == IF run.door1 THEN Add32(p0, scale.points_door1) ELSE p0
        p2 == IF run.door2 THEN Add32(p1, scale.points_door2) ELSE p1
        p3 == IF run.door3 THEN Add32(p2, scale.points_door3) ELSE p2
        p4 == IF run.door4 THEN Add32(p3, scale.points_door4) ELSE p3
        p5 == IF run.door5 THEN Add32(p4, scale.points_door5) ELSE p4
        p6 == IF run.door6 THEN Add32(p5, scale.points_door6) ELSE p5
    IN  p6

\* faulty variant: the recompute leaves the first door out
RecalculateRunPointsWithoutDoor1(row, scale) ==
    LET r1 == 0
        r2 == IF row.door2 THEN Add32(r1, scale.points_door2) ELSE r1
        r3 == IF row.door3 THEN Add32(r2, scale.points_door3) ELSE r2
        r4 == IF row.door4 THEN Add32(r3, scale.points_door4) ELSE r3
        r5 == IF row.door5 THEN Add32(r4, scale.points_door5) ELSE r4
        r6 == IF row.door6 THEN Add32(r5, scale.points_door6) ELSE r5
    IN  r6

\* RecalculateLiveranking, "Calculate points for this run" on one joined row
RecalculateRunPoints(row, scale) ==
    LET r0 == 0
        r1 == IF row.door1 THEN Add32(r0, scale.points_door1) ELSE r0
        r2 == IF row.door2 THEN Add32(r1, scale.points_door2) ELSE r1
        r3 == IF row.door3 THEN Add32(r2, scale.points_door3) ELSE r2
        r4 == IF row.door4 THEN Add32(r3, scale.points_door4) ELSE r3
        r5 == IF row.door5 THEN Add32(r4, scale.points_door5) ELSE r4
        r6 == IF row.door6 THEN Add32(r5, scale.points_door6) ELSE r5
    IN  r6

\* the key of the export's scale index: fmt.Sprintf("%s_%s", category, zone)
ScaleKey(category, zone) == category \o "_" \o zone

\* CompetitionService.getAllScales: the scales of the competition by key (no
\* two (category, zone) of Categories \X Zones give the same key)
getAllScales(cid) ==
    LET present == { k \in DOMAIN scales : GetScale(cid, k[1], k[2]) # NoScale }
    IN  [ key \in { ScaleKey(k[1], k[2]) : k \in present } |->
            LET k == CHOOSE x \in present : ScaleKey(x[1], x[2]) = key
            IN  scales[k] ]

\* CompetitionService.calculateRunPoints: a key missing from the index gives 0
calculateRunPoints(run, scaleMap, category, zone) ==
    IF ScaleKey(category, zone) \notin DOMAIN scaleMap
        THEN 0
    ELSE
        LET scale == scaleMap[ScaleKey(category, zone)]
            q0 == 0
            q1 == IF run.door1 THEN Add32(q0, scale.points_door1) ELSE q0
            q2 == IF run.door2 THEN Add32(q1, scale.points_door2) ELSE q1
            q3 == IF run.door3 THEN Add32(q2, scale.points_door3) ELSE q2
            q4 == IF run.door4 THEN Add32(q3, scale.points_door4) ELSE q3
            q5 == IF run.door5 THEN Add32(q4, scale.points_door5) ELSE q4
            q6 == IF run.door6 THEN Add32(q5, scale.points_door6) ELSE q5
        IN  q6

---------------------------------------------------------------------------
(* Results of the calls *)

\* Server.createRun: the status the handler answers for the service's error
CreateRunStatus(err) ==
    IF err = "nil" THEN 201
    ELSE IF err = "service.ErrInvalidRunData" THEN 400
    ELSE IF err \in {"repository.ErrParticipantNotFound", "service.ErrScaleNotFound"} THEN 404
    ELSE 500

\* what the last call answered: the participant it named, and for a call that
\* succeeded the run it wrote and the run_number its request carried
Result(op, d, n, requested, err) ==
    [op |-> op, dossard |-> d, run_number |-> n, requested |-> requested, err |-> err]

NoResult == Result("none", 0, 0, 0, "nil")

---------------------------------------------------------------------------
(* Run ledger and liveranking writes *)

\* SQLRunRepository.CreateRun: participant check, run number, insert
RunRepoCreateRun(cid, d, num, zone, data) ==
    IF GetParticipant(cid, d) = NoParticipant
        THEN [err |-> "repository.ErrParticipantNotFoundForRun", run_number |-> num, table |-> runs]
    ELSE
        LET n == IF num <= 0 THEN MaxRunNumber(cid, d) + 1 ELSE num
        IN  IF GetRun(cid, n, d) # {}
                THEN [err |-> "repository.ErrDuplicateRun", run_number |-> n, table |-> runs]
                ELSE [err |-> "nil", run_number |-> n,
                      table |-> runs \cup {RunRow(d, n, zone, data)}]

\* faulty variant: an existing entry gets the run's values in place of the sums
UpsertLiverankingOverwrite(cid, d, points, pen, chrono) ==
    IF cid = CompetitionID /\ d \in Dossards /\ liverankings[d] # NoEntry
        THEN [err |-> "nil",
              table |-> [liverankings EXCEPT ![d] =
                  [number_of_runs |-> @.number_of_runs + 1, total_points |-> points,
                   penality |-> pen, chrono_sec |-> chrono]]]
    ELSE IF GetParticipant(cid, d) = NoParticipant
        THEN [err |-> "repository.ErrParticipantNotFound", table |-> liverankings]
    ELSE [err |-> "nil",
          table |-> [liverankings EXCEPT ![d] =
              [number_of_runs |-> 1, total_points |-> points,
               penality |-> pen, chrono_sec |-> chrono]]]

\* SQLLiverankingRepository.UpsertLiveranking: add to the entry, or insert it
UpsertLiveranking(cid, d, points, pen, chrono) ==
    LET exists == cid = CompetitionID /\ d \in Dossards /\ liverankings[d] # NoEntry
    IN  IF exists
            THEN [err |-> "nil",
                  table |-> [liverankings EXCEPT ![d] =
                      [number_of_runs |-> @.number_of_runs + 1,
                       total_points |-> @.total_points + points,
                       penality |-> @.penality + pen,
                       chrono_sec |-> @.chrono_sec + chrono]]]
        ELSE IF GetParticipant(cid, d) = NoParticipant
            THEN [err |-> "repository.ErrParticipantNotFound", table |-> liverankings]
        ELSE [err |-> "nil",
              table |-> [liverankings EXCEPT ![d] =
                  [number_of_runs |-> 1, total_points |-> points,
                   penality |-> pen, chrono_sec |-> chrono]]]

\* the rows of RecalculateLiveranking's query: the participant's runs joined
\* with the participant and with the scale of (category, zone)
JoinedRuns(cid, d) ==
    { r \in RunsOf(cid, d) :
        /\ GetParticipant(cid, d) # NoParticipant
        /\ GetScale(cid, GetParticipant(cid, d).category, r.zone) # NoScale }

\* faulty variant: a LEFT JOIN on scales, where a run without a scale still
\* adds its penalty and time
RecalculateLiverankingLeftJoin(cid, d) ==
    LET rows == RunsOf(cid, d)
        RECURSIVE TotalLeft(_, _)
        TotalLeft(S, acc) ==
            IF S = {} THEN acc
            ELSE LET r == CHOOSE x \in S : TRUE
                     scale == GetScaleOrZero(cid, GetParticipant(cid, d).category, r.zone)
                 IN  TotalLeft(S \ {r},
                           [number_of_runs |-> Add32(acc.number_of_runs, 1),
                            total_points |-> Add32(acc.total_points, RecalculateRunPoints(r, scale)),
                            penality |-> Add32(acc.penality, r.penality),
                            chrono_sec |-> Add32(acc.chrono_sec, r.chrono_sec)])
        totals == TotalLeft(rows, [number_of_runs |-> 0, total_points |-> 0,
                                   penality |-> 0, chrono_sec |-> 0])
    IN  IF cid # CompetitionID \/ d \notin Dossards THEN liverankings
        ELSE IF totals.number_of_runs = 0 THEN [liverankings EXCEPT ![d] = NoEntry]
        ELSE [liverankings EXCEPT ![d] = totals]

\* SQLLiverankingRepository.RecalculateLiveranking: the liverankings table it
\* leaves.  No service or handler calls it.
RecalculateLiveranking(cid, d) ==
    LET rows == JoinedRuns(cid, d)
        RECURSIVE Total(_, _)
        Total(S, acc) ==
            IF S = {} THEN acc
            ELSE LET r == CHOOSE x \in S : TRUE
                     scale == GetScale(cid, GetParticipant(cid, d).category, r.zone)
                 IN  Total(S \ {r},
                           [number_of_runs |-> Add32(acc.number_of_runs, 1),
                            total_points |-> Add32(acc.total_points, RecalculateRunPoints(r, scale)),
                            penality |-> Add32(acc.penality, r.penality),
                            chrono_sec |-> Add32(acc.chrono_sec, r.chrono_sec)])
        totals == Total(rows, [number_of_runs |-> 0, total_points |-> 0,
                               penality |-> 0, chrono_sec |-> 0])
    IN  IF cid # CompetitionID \/ d \notin Dossards THEN liverankings
        ELSE IF totals.number_of_runs = 0 THEN [liverankings EXCEPT ![d] = NoEntry]
        ELSE [liverankings EXCEPT ![d] = totals]

\* RunService.CreateRun
CreateRun(cid, d, num, zone, data) ==
    LET participant == GetParticipant(cid, d)
        scale == GetScale(cid, participant.category, zone)
        created == RunRepoCreateRun(cid, d, num, zone, data)
        totalPoints == CreateRunPoints(data, scale)
        upserted == UpsertLiveranking(cid, d, totalPoints, data.penality, data.chrono_sec)
    IN  /\ UNCHANGED <<participants, scales, listing>>
        /\ IF cid <= 0 \/ d <= 0 \/ zone = ""
             THEN /\ lastOp' = Result("CreateRun", d, 0, 0, "service.ErrInvalidRunData")
                  /\ UNCHANGED <<runs, liverankings>>
           ELSE IF participant = NoParticipant
             THEN /\ lastOp' = Result("CreateRun", d, 0, 0, "repository.ErrParticipantNotFound")
                  /\ UNCHANGED <<runs, liverankings>>
           ELSE IF scale = NoScale
             THEN /\ lastOp' = Result("CreateRun", d, 0, 0, "repository.ErrScaleNotFound")
                  /\ UNCHANGED <<runs, liverankings>>
           ELSE IF created.err # "nil"
             THEN /\ lastOp' = Result("CreateRun", d, 0, 0, created.err)
                  /\ UNCHANGED <<runs, liverankings>>
           ELSE /\ runs' = created.table
                /\ liverankings' = upserted.table
                /\ lastOp' = Result("CreateRun", d, created.run_number, num, upserted.err)

\* RunService.UpdateRun -> SQLRunRepository.UpdateRun.  RowsAffected of an UPDATE
\* that matches a row without changing it is 0 or 1 depending on the driver's
\* clientFoundRows option, which the configured DSN decides.
UpdateRun(cid, n, d, zone, data) ==
    LET matched == GetRun(cid, n, d)
        row == RunRow(d, n, zone, data)
    IN  /\ UNCHANGED <<participants, scales, liverankings, listing>>
        /\ IF matched = {}
             THEN /\ lastOp' = Result("UpdateRun", d, 0, 0, "repository.ErrRunNotFound")
                  /\ UNCHANGED runs
           ELSE IF matched = {row}
             THEN /\ \E err \in {"nil", "repository.ErrRunNotFound"} :
                        lastOp' = Result("UpdateRun", d, IF err = "nil" THEN n ELSE 0, 0, err)
                  /\ UNCHANGED runs
           ELSE /\ runs' = (runs \ matched) \cup {row}
                /\ lastOp' = Result("UpdateRun", d, n, 0, "nil")

\* RunService.DeleteRun -> SQLRunRepository.DeleteRun
DeleteRun(cid, n, d) ==
    LET matched == GetRun(cid, n, d)
    IN  /\ UNCHANGED <<participants, scales, liverankings, listing>>
        /\ IF matched = {}
             THEN /\ lastOp' = Result("DeleteRun", d, 0, 0, "repository.ErrRunNotFound")
                  /\ UNCHANGED runs
             ELSE /\ runs' = runs \ matched
                  /\ lastOp' = Result("DeleteRun", d, n, 0, "nil")

---------------------------------------------------------------------------
(* Participant registry and scale table writes *)

\* CompetitionService.CreateParticipant -> SQLParticipantRepository.CreateParticipant
CreateParticipant(cid, d, category, gender) ==
    /\ UNCHANGED <<scales, runs, liverankings, listing>>
    /\ IF cid # CompetitionID
         THEN /\ lastOp' = Result("CreateParticipant", d, 0, 0, "repository.ErrCompetitionNotFound")
              /\ UNCHANGED participants
       ELSE IF participants[d] # NoParticipant
         THEN /\ lastOp' = Result("CreateParticipant", d, 0, 0, "repository.ErrDuplicateParticipant")
              /\ UNCHANGED participants
       ELSE /\ participants' = [participants EXCEPT ![d] = [category |-> category, gender |-> gender]]
            /\ lastOp' = Result("CreateParticipant", d, 0, 0, "nil")

\* CompetitionService.AddScale -> SQLScaleRepository.CreateScale
AddScale(cid, category, zone, data) ==
    /\ UNCHANGED <<participants, runs, liverankings, listing>>
    /\ IF cid # CompetitionID
         THEN /\ lastOp' = Result("AddScale", 0, 0, 0, "repository.ErrCompetitionNotFound")
              /\ UNCHANGED scales
       ELSE IF scales[<<category, zone>>] # NoScale
         THEN /\ lastOp' = Result("AddScale", 0, 0, 0, "repository.ErrDuplicateScale")
              /\ UNCHANGED scales
       ELSE /\ scales' = [scales EXCEPT ![<<category, zone>>] = data]
            /\ lastOp' = Result("AddScale", 0, 0, 0, "nil")

\* CompetitionService.UpdateScale -> SQLScaleRepository.UpdateScale (RowsAffected
\* of an UPDATE that changes nothing: see UpdateRun)
UpdateScale(cid, category, zone, data) ==
    /\ UNCHANGED <<participants, runs, liverankings, listing>>
    /\ IF GetScale(cid, category, zone) = NoScale
         THEN /\ lastOp' = Result("UpdateScale", 0, 0, 0, "repository.ErrScaleNotFound")
              /\ UNCHANGED scales
       ELSE IF scales[<<category, zone>>] = data
         THEN /\ \E err \in {"nil", "repository.ErrScaleNotFound"} :
                    lastOp' = Result("UpdateScale", 0, 0, 0, err)
              /\ UNCHANGED scales
       ELSE /\ scales' = [scales EXCEPT ![<<category, zone>>] = data]
            /\ lastOp' = Result("UpdateScale", 0, 0, 0, "nil")

\* faulty variant: deleting a scale also takes the points away from the
\* liveranking entries of the category
DeleteScaleRescoring(cid, category, zone) ==
    /\ UNCHANGED <<participants, runs, listing>>
    /\ IF GetScale(cid, category, zone) = NoScale
         THEN /\ lastOp' = Result("DeleteScale", 0, 0, 0, "repository.ErrScaleNotFound")
              /\ UNCHANGED <<scales, liverankings>>
         ELSE /\ scales' = [scales EXCEPT ![<<category, zone>>] = NoScale]
              /\ liverankings' = [d \in Dossards |->
                    IF liverankings[d] # NoEntry /\ participants[d] # NoParticipant
                         /\ participants[d].category = category
                      THEN [liverankings[d] EXCEPT !.total_points = 0]
                      ELSE liverankings[d]]
              /\ lastOp' = Result("DeleteScale", 0, 0, 0, "nil")

\* CompetitionService.DeleteScale -> SQLScaleRepository.DeleteScale
DeleteScale(cid, category, zone) ==
    /\ UNCHANGED <<participants, runs, liverankings, listing>>
    /\ IF GetScale(cid, category, zone) = NoScale
         THEN /\ lastOp' = Result("DeleteScale", 0, 0, 0, "repository.ErrScaleNotFound")
              /\ UNCHANGED scales
         ELSE /\ scales' = [scales EXCEPT ![<<category, zone>>] = NoScale]
              /\ lastOp' = Result("DeleteScale", 0, 0, 0, "nil")

---------------------------------------------------------------------------
(* The write side: the requests of the run, scale and participant handlers *)

Init ==
    /\ participants = [d \in Dossards |-> NoParticipant]
    /\ scales = [k \in Categories \X Zones |-> NoScale]
    /\ runs = {}
    /\ liverankings = [d \in Dossards |-> NoEntry]
    /\ lastOp = NoResult
    /\ listing = NoListing
    /\ NewRateLimiter
    /\ calls = NoCalls

\* runs ever created and counted in the liveranking
RunsCounted ==
    LET RECURSIVE Count(_)
        Count(S) == IF S = {} THEN 0
                    ELSE LET d == CHOOSE x \in S : TRUE
                         IN  (IF liverankings[d] = NoEntry THEN 0
                              ELSE liverankings[d].number_of_runs) + Count(S \ {d})
    IN  Count(Dossards)

DoCreateParticipant ==
    /\ \E p \in ParticipantChoices, d \in LedgerDossards :
           CreateParticipant(CompetitionID, d, p.category, p.gender)
    /\ UNCHANGED rateVars
    /\ UNCHANGED calls

DoAddScale ==
    /\ \E category \in ScaleCategories, zone \in ScaleZones, data \in ScaleChoices :
           AddScale(CompetitionID, category, zone, data)
    /\ UNCHANGED rateVars
    /\ UNCHANGED calls

DoUpdateScale ==
    /\ \E category \in ScaleCategories, zone \in ScaleZones, data \in ScaleChoices :
           UpdateScale(CompetitionID, category, zone, data)
    /\ UNCHANGED rateVars
    /\ UNCHANGED calls

DoDeleteScale ==
    /\ \E category \in ScaleCategories, zone \in ScaleZones :
           DeleteScale(CompetitionID, category, zone)
    /\ UNCHANGED rateVars
    /\ UNCHANGED calls

DoCreateRun ==
    /\ RunsCounted < MaxRuns
    /\ \/ \E d \in LedgerDossards, num \in {0, ExplicitRunNumber}, zone \in Zones,
             data \in LedgerRunChoices :
               CreateRun(CompetitionID, d, num, zone, data)
       \/ \E req \in InvalidRunRequests, data \in LedgerRunChoices :
               CreateRun(req.competition_id, req.dossard, 0, req.zone, data)
    /\ UNCHANGED rateVars
    /\ UNCHANGED calls

DoUpdateRun ==
    /\ \E d \in LedgerDossards, n \in TargetRunNumbers, zone \in Zones, data \in LedgerRunChoices :
           UpdateRun(CompetitionID, n, d, zone, data)
    /\ UNCHANGED rateVars
    /\ UNCHANGED calls

DoDeleteRun ==
    /\ \E d \in LedgerDossards, n \in TargetRunNumbers :
           DeleteRun(CompetitionID, n, d)
    /\ UNCHANGED rateVars
    /\ UNCHANGED calls

Next ==
    \/ DoCreateParticipant
    \/ DoAddScale
    \/ DoUpdateScale
    \/ DoDeleteScale
    \/ DoCreateRun
    \/ DoUpdateRun
    \/ DoDeleteRun

Spec == Init /\ [][Next]_vars

---------------------------------------------------------------------------
(* Create-only: run creations against a registry and a scale table that    *)
(* were set up before and do not change afterwards.                        *)

\* run bodies of the create requests: two of them pass the same door with
\* different penalties and times
CreateRunChoices ==
    { RunData(TRUE, FALSE, FALSE, FALSE, FALSE, FALSE, 0, 30),
      RunData(TRUE, FALSE, FALSE, FALSE, FALSE, FALSE, 5, 45),
      RunData(FALSE, FALSE, FALSE, FALSE, FALSE, FALSE, 5, 30) }

\* the state CreateParticipant and AddScale requests have set up: dossard 1 is
\* registered, dossard 2 may be, and only (junior, A) has a scale
InitCreate ==
    /\ \E p2 \in ParticipantChoices \cup {NoParticipant} :
          participants = [d \in Dossards |->
                            IF d = 1 THEN [category |-> "junior", gender |-> "H"]
                            ELSE IF d = 2 THEN p2 ELSE NoParticipant]
    /\ \E data \in ScaleChoices :
          scales = [k \in Categories \X Zones |->
                            IF k = <<"junior", "A">> THEN data ELSE NoScale]
    /\ runs = {}
    /\ liverankings = [d \in Dossards |-> NoEntry]
    /\ lastOp = NoResult
    /\ listing = NoListing
    /\ NewRateLimiter
    /\ calls = NoCalls

CreateOnlyRun ==
    /\ RunsCounted < MaxCreated
    /\ \E d \in LedgerDossards, num \in RunNumberInputs, zone \in Zones,
          data \in CreateRunChoices :
            CreateRun(CompetitionID, d, num, zone, data)
    /\ UNCHANGED rateVars
    /\ UNCHANGED calls

CreateOnlyInvalidRun ==
    /\ RunsCounted < MaxCreated
    /\ \E req \in InvalidRunRequests, data \in CreateRunChoices :
            CreateRun(req.competition_id, req.dossard, 0, req.zone, data)
    /\ UNCHANGED rateVars
    /\ UNCHANGED calls

NextCreate ==
    \/ CreateOnlyRun
    \/ CreateOnlyInvalidRun

SpecCreate == InitCreate /\ [][NextCreate]_vars

---------------------------------------------------------------------------
(* Reference values the properties compare the program with *)

\* the sum over the six doors of the scale's value for a passed door
DoorSum(run, scale) ==
      (IF run.door1 THEN scale.points_door1 ELSE 0)
    + (IF run.door2 THEN scale.points_door2 ELSE 0)
    + (IF run.door3 THEN scale.points_door3 ELSE 0)
    + (IF run.door4 THEN scale.points_door4 ELSE 0)
    + (IF run.door5 THEN scale.points_door5 ELSE 0)
    + (IF run.door6 THEN scale.points_door6 ELSE 0)

\* the sum of one column over a set of rows
SumField(R, field) ==
    LET RECURSIVE Sum(_)
        Sum(S) == IF S = {} THEN 0
                  ELSE LET r == CHOOSE x \in S : TRUE
                       IN  r[field] + Sum(S \ {r})
    IN  Sum(R)

SameDoors(r, s) ==
    /\ r.door1 = s.door1 /\ r.door2 = s.door2 /\ r.door3 = s.door3
    /\ r.door4 = s.door4 /\ r.door5 = s.door5 /\ r.door6 = s.door6

RunNumbersOf(d) == { r.run_number : r \in RunsOf(CompetitionID, d) }

LastCreated(d) ==
    /\ lastOp.op = "CreateRun"
    /\ lastOp.err = "nil"
    /\ lastOp.dossard = d

---------------------------------------------------------------------------
(* Properties of run creation, checked under SpecCreate *)

\* C2: a participant whose N runs were all created against the same zone, the
\* same unchanged scale and the same door booleans has a liveranking entry with
\* number_of_runs = N, total_points = N times the points of one run, and
\* penality and chrono_sec the sums of the N runs' values.
C2_AdditiveTotals ==
    \A d \in Dossards :
        LET R == RunsOf(CompetitionID, d)
        IN  (R # {} /\ \A r, s \in R : r.zone = s.zone /\ SameDoors(r, s)) =>
              LET one == CHOOSE r \in R : TRUE
                  scale == scales[<<participants[d].category, one.zone>>]
              IN  /\ liverankings[d] # NoEntry
                  /\ liverankings[d].number_of_runs = Cardinality(R)
                  /\ liverankings[d].total_points = Cardinality(R) * DoorSum(one, scale)
                  /\ liverankings[d].penality = SumField(R, "penality")
                  /\ liverankings[d].chrono_sec = SumField(R, "chrono_sec")

\* three runs with the same zone and doors, scoring points, with different
\* penalties and times
C2_Witness ==
    \E d \in Dossards :
        LET R == RunsOf(CompetitionID, d)
        IN  /\ Cardinality(R) = 3
            /\ \A r, s \in R : r.zone = s.zone /\ SameDoors(r, s)
            /\ \E r, s \in R : r.penality # s.penality
            /\ \E r, s \in R : r.chrono_sec # s.chrono_sec
            /\ liverankings[d] # NoEntry
            /\ liverankings[d].total_points > 0
            /\ LastCreated(d)

\* C6: a CreateRun whose request carries run_number <= 0 stores the run under
\* max(run numbers of that participant) + 1, or 1 when the participant has no
\* run; an explicit run_number is kept.  So runs created without explicit number
\* are numbered 1, 2, 3 in creation order, and the run created after an explicit
\* 5 gets 6.
C6_RunNumbering ==
    \A d \in Dossards :
        LET others == RunNumbersOf(d) \ {lastOp.run_number}
        IN  /\ (LastCreated(d) /\ lastOp.requested <= 0) =>
                  /\ lastOp.run_number \in RunNumbersOf(d)
                  /\ lastOp.run_number = (IF others = {} THEN 0 ELSE SetMax(others)) + 1
            /\ (LastCreated(d) /\ lastOp.requested > 0) =>
                  /\ lastOp.run_number \in RunNumbersOf(d)
                  /\ lastOp.run_number = lastOp.requested
            /\ (\A n \in RunNumbersOf(d) : n < ExplicitRunNumber) =>
                  RunNumbersOf(d) = 1..Cardinality(RunsOf(CompetitionID, d))
            /\ (LastCreated(d) /\ lastOp.requested <= 0
                    /\ others # {} /\ SetMax(others) = ExplicitRunNumber) =>
                  lastOp.run_number = ExplicitRunNumber + 1

\* the third run created without explicit number got 3
C6_Witness ==
    \E d \in Dossards :
        /\ RunNumbersOf(d) = {1, 2, 3}
        /\ LastCreated(d)
        /\ lastOp.requested <= 0
        /\ lastOp.run_number = 3

\* C7: a well-formed CreateRun that names a dossard without participant answers
\* participant not found; a dossard without participant has neither a run nor a
\* liveranking entry, so every run of the ledger refers to an existing
\* participant.
C7_ParticipantRequired ==
    /\ \A r \in runs : participants[r.dossard] # NoParticipant
    /\ \A d \in Dossards :
          participants[d] = NoParticipant =>
              /\ RunsOf(CompetitionID, d) = {}
              /\ liverankings[d] = NoEntry
              /\ (lastOp.op = "CreateRun" /\ lastOp.dossard = d) =>
                    lastOp.err = "repository.ErrParticipantNotFound"

\* a create request for an unregistered dossard was refused while the ledger
\* holds runs of a registered one
C7_Witness ==
    /\ lastOp.op = "CreateRun"
    /\ lastOp.dossard \in Dossards
    /\ participants[lastOp.dossard] = NoParticipant
    /\ lastOp.err = "repository.ErrParticipantNotFound"
    /\ runs # {}

\* C8: every CreateRun step for a registered participant and a zone that has no
\* scale for the participant's category answers the scale repository's not-found
\* error and leaves the run ledger and the liveranking as they were.
C8_ScaleRequired ==
    [][ \A d \in LedgerDossards, num \in RunNumberInputs, zone \in Zones,
           data \in CreateRunChoices :
            ( /\ participants[d] # NoParticipant
              /\ scales[<<participants[d].category, zone>>] = NoScale
              /\ CreateRun(CompetitionID, d, num, zone, data) )
            => /\ lastOp'.op = "CreateRun"
               /\ lastOp'.err = "repository.ErrScaleNotFound"
               /\ runs' = runs
               /\ liverankings' = liverankings ]_vars

\* a create request was refused for a missing scale while the ledger and the
\* liveranking hold a run of the same participant (Server.createRun answers
\* this error with 500: it tests for the service's ErrScaleNotFound)
C8_Witness ==
    /\ lastOp.op = "CreateRun"
    /\ lastOp.err = "repository.ErrScaleNotFound"
    /\ CreateRunStatus(lastOp.err) = 500
    /\ RunsOf(CompetitionID, lastOp.dossard) # {}
    /\ liverankings[lastOp.dossard] # NoEntry

---------------------------------------------------------------------------
(* Properties of run update and deletion, checked under Spec *)

\* every run of the participant has the scale of (category, zone)
AllScored(d) ==
    /\ participants[d] # NoParticipant
    /\ \A r \in RunsOf(CompetitionID, d) :
          scales[<<participants[d].category, r.zone>>] # NoScale

\* the sum of the runs' points, each run scored with the scale of the
\* participant's category and the run's zone
PointsOfRuns(d) ==
    LET RECURSIVE Sum(_)
        Sum(S) == IF S = {} THEN 0
                  ELSE LET r == CHOOSE x \in S : TRUE
                       IN  DoorSum(r, scales[<<participants[d].category, r.zone>>])
                             + Sum(S \ {r})
    IN  Sum(RunsOf(CompetitionID, d))

TotalsMatchRuns(d) ==
    /\ liverankings[d] # NoEntry
    /\ liverankings[d].total_points = PointsOfRuns(d)
    /\ liverankings[d].penality = SumField(RunsOf(CompetitionID, d), "penality")
    /\ liverankings[d].chrono_sec = SumField(RunsOf(CompetitionID, d), "chrono_sec")

\* C3: right after a successful UpdateRun of a participant's run, the
\* participant's liveranking entry has total_points, penality and chrono_sec
\* equal to the sums over the participant's current runs.
C3_UpdateRecomputes ==
    \A d \in Dossards :
        ( /\ lastOp.op = "UpdateRun" /\ lastOp.err = "nil" /\ lastOp.dossard = d
          /\ AllScored(d) )
        => TotalsMatchRuns(d)

\* C4: right after a successful DeleteRun that leaves the participant at least
\* one run, the liveranking entry's run count and totals are those of the
\* remaining runs (scale door1 = 10, run 1 passing door 1, run 2 with penalty 5:
\* deleting run 1 leaves points 0, penalty 5, 1 run).
C4_DeleteRecomputes ==
    \A d \in Dossards :
        ( /\ lastOp.op = "DeleteRun" /\ lastOp.err = "nil" /\ lastOp.dossard = d
          /\ RunsOf(CompetitionID, d) # {}
          /\ AllScored(d) )
        => /\ TotalsMatchRuns(d)
           /\ liverankings[d].number_of_runs = Cardinality(RunsOf(CompetitionID, d))

\* the scenario of C4 as the program leaves it: run 1 deleted, run 2 remaining,
\* and the entry still at points 10, penalty 5, 2 runs
C4_ScenarioAfterDelete ==
    /\ lastOp = Result("DeleteRun", 1, 1, 0, "nil")
    /\ participants[1] # NoParticipant
    /\ participants[1].category = "junior"
    /\ scales[<<"junior", "A">>] = ScaleData(10, 0, 0, 0, 0, 0)
    /\ RunsOf(CompetitionID, 1) =
          {RunRow(1, 2, "A", RunData(FALSE, FALSE, FALSE, FALSE, FALSE, FALSE, 5, 30))}
    /\ liverankings[1] = [number_of_runs |-> 2, total_points |-> 10,
                          penality |-> 5, chrono_sec |-> 60]

\* C5: in every state a liveranking entry exists for a dossard if and only if
\* the ledger holds at least one run of that dossard.
C5_EntryIffRuns ==
    \A d \in Dossards :
        (liverankings[d] # NoEntry) <=> (RunsOf(CompetitionID, d) # {})

\* the last run of a participant was deleted and the entry is still there
C5_EntryWithoutRuns ==
    \E d \in Dossards :
        /\ lastOp = Result("DeleteRun", d, lastOp.run_number, 0, "nil")
        /\ RunsOf(CompetitionID, d) = {}
        /\ liverankings[d] # NoEntry

---------------------------------------------------------------------------
(* Scoring: one participant, one scale drawn from the values the scale      *)
(* requests accept, one run, and the three places that score it.            *)

InitPoints ==
    /\ participants = [d \in Dossards |->
                          IF d = 1 THEN [category |-> "junior", gender |-> "H"]
                          ELSE NoParticipant]
    /\ \E data \in WideScaleChoices :
          scales = [k \in Categories \X Zones |->
                          IF k = <<"junior", "A">> THEN data ELSE NoScale]
    /\ runs = {}
    /\ liverankings = [d \in Dossards |-> NoEntry]
    /\ lastOp = NoResult
    /\ listing = NoListing
    /\ NewRateLimiter
    /\ calls = NoCalls

\* RunService.CreateRun of the participant's only run
ScoreByCreateRun ==
    /\ runs = {}
    /\ \E data \in AllDoorRuns : CreateRun(CompetitionID, 1, 0, "A", data)
    /\ UNCHANGED rateVars
    /\ UNCHANGED calls

\* SQLLiverankingRepository.RecalculateLiveranking for the participant
ScoreByRecalculate ==
    /\ runs # {}
    /\ liverankings' = RecalculateLiveranking(CompetitionID, 1)
    /\ lastOp' = Result("RecalculateLiveranking", 1, 0, 0, "nil")
    /\ UNCHANGED <<participants, scales, runs, listing>>
    /\ UNCHANGED rateVars
    /\ UNCHANGED calls

\* the export's scoring of one run of the ledger (generateSheetContent)
ScoreByExport ==
    /\ \E r \in runs :
          listing' = [op |-> "calculateRunPoints", dossard |-> r.dossard,
                      run_number |-> r.run_number,
                      points |-> calculateRunPoints(r, getAllScales(CompetitionID),
                                     participants[r.dossard].category, r.zone)]
    /\ UNCHANGED <<participants, scales, runs, liverankings, lastOp>>
    /\ UNCHANGED rateVars
    /\ UNCHANGED calls

NextPoints ==
    \/ ScoreByCreateRun
    \/ ScoreByRecalculate
    \/ ScoreByExport

SpecPoints == InitPoints /\ [][NextPoints]_vars

\* the scale has no negative door value
NonNegativeScale(scale) ==
    /\ scale.points_door1 >= 0 /\ scale.points_door2 >= 0 /\ scale.points_door3 >= 0
    /\ scale.points_door4 >= 0 /\ scale.points_door5 >= 0 /\ scale.points_door6 >= 0

\* points = DoorSum(run, scale), for non-negative door values of any size: the
\* sum is compared by its high and low parts so that it is never formed
IsDoorSum(points, run, scale) ==
    LET half == 65536
        hi == DoorSum(run, [f \in DOMAIN scale |-> scale[f] \div half])
        lo == DoorSum(run, [f \in DOMAIN scale |-> scale[f] % half])
    IN  /\ points >= 0
        /\ points \div half = hi + (lo \div half)
        /\ points % half = lo % half

\* C1: for the run of the ledger and a scale without negative door value, the
\* points CreateRun adds to the liveranking, the points RecalculateLiveranking
\* stores and the points calculateRunPoints returns are each the sum over the
\* six doors of the scale's value for a passed door, are not negative, and are
\* the same value.
C1_PointsAreDoorSum ==
    \A r \in runs :
        LET scale == scales[<<participants[r.dossard].category, r.zone>>]
        IN  NonNegativeScale(scale) =>
              /\ IsDoorSum(liverankings[r.dossard].total_points, r, scale)
              /\ liverankings[r.dossard].total_points >= 0
              /\ (listing # NoListing) =>
                    /\ IsDoorSum(listing.points, r, scale)
                    /\ listing.points >= 0
                    /\ listing.points = liverankings[r.dossard].total_points

\* the three places agree on a wrapped, negative value
C1_WrappedEverywhere ==
    /\ lastOp.op = "RecalculateLiveranking"
    /\ listing # NoListing
    /\ liverankings[1] # NoEntry
    /\ liverankings[1].total_points < 0
    /\ listing.points = liverankings[1].total_points
    /\ NonNegativeScale(scales[<<"junior", "A">>])

---------------------------------------------------------------------------
(* Liveranking listing *)

Min(a, b) == IF a <= b THEN a ELSE b

\* a row of the listing query: the liveranking entry joined with its participant
JoinedEntry(d) ==
    [dossard |-> d,
     category |-> participants[d].category,
     gender |-> participants[d].gender,
     number_of_runs |-> liverankings[d].number_of_runs,
     total_points |-> liverankings[d].total_points,
     penality |-> liverankings[d].penality,
     chrono_sec |-> liverankings[d].chrono_sec]

\* FROM liverankings l JOIN participants p ... WHERE l.competition_id = ?
EntriesOf(cid) ==
    { JoinedEntry(d) : d \in { x \in Dossards :
        cid = CompetitionID /\ liverankings[x] # NoEntry /\ participants[x] # NoParticipant } }

\* ... AND p.category = ? AND p.gender = ?
EntriesByCategoryAndGender(cid, category, gender) ==
    { e \in EntriesOf(cid) : e.category = category /\ e.gender = gender }

\* faulty variant: chrono_sec ascending
OrderedBeforeChronoAsc(a, b) ==
    \/ a.total_points > b.total_points
    \/ a.total_points = b.total_points /\ a.penality < b.penality
    \/ a.total_points = b.total_points /\ a.penality = b.penality
          /\ a.chrono_sec < b.chrono_sec

\* ORDER BY l.total_points DESC, l.penality ASC, l.chrono_sec DESC: a sorts
\* strictly before b
OrderedBefore(a, b) ==
    \/ a.total_points > b.total_points
    \/ a.total_points = b.total_points /\ a.penality < b.penality
    \/ a.total_points = b.total_points /\ a.penality = b.penality
          /\ a.chrono_sec > b.chrono_sec

\* the orders in which one execution of the query may produce the rows: the
\* ORDER BY fixes the order up to rows that are equal on its three columns,
\* which the server may return in any order
SortedArrangements(S) ==
    LET RECURSIVE Arr(_)
        Arr(T) ==
            IF T = {} THEN { <<>> }
            ELSE UNION { { <<x>> \o rest : rest \in Arr(T \ {x}) } :
                           x \in { y \in T : \A z \in T : ~OrderedBefore(z, y) } }
    IN  Arr(S)

\* LIMIT ? OFFSET ? over one arrangement
LimitOffset(arr, limit, offset) ==
    IF offset >= Len(arr) THEN <<>>
    ELSE SubSeq(arr, offset + 1, Min(offset + limit, Len(arr)))

\* the response of a listing request, and the pages the client has fetched so
\* far with the same request (same filter, same page size)
ListingResponse(op, category, gender, pageNumber, pageSize, err, rows, total) ==
    LET size == IF pageSize <= 0 THEN DefaultPageSize ELSE pageSize
        page == IF pageNumber <= 0 THEN DefaultPageNumber ELSE pageNumber
        same == /\ listing # NoListing
                /\ listing.err = "nil"
                /\ listing.op = op
                /\ listing.category = category
                /\ listing.gender = gender
                /\ listing.size = size
        kept == IF same THEN listing.pages ELSE <<>>
    IN  [op |-> op, category |-> category, gender |-> gender,
         page |-> pageNumber, page_size |-> pageSize, size |-> size,
         err |-> err, rows |-> rows, total |-> total,
         pages |-> IF err = "nil"
                     THEN [p \in (DOMAIN kept) \cup {page} |->
                              IF p = page THEN rows ELSE kept[p]]
                     ELSE <<>>]

\* SQLLiverankingRepository.ListLiveranking
ListLiveranking(cid, pageNumber, pageSize) ==
    LET size == IF pageSize <= 0 THEN DefaultPageSize ELSE pageSize
        page == IF pageNumber <= 0 THEN DefaultPageNumber ELSE pageNumber
        totalCount == Cardinality({ d \in Dossards :
                          cid = CompetitionID /\ liverankings[d] # NoEntry })
        offset == (page - 1) * size
    IN  /\ \E arr \in SortedArrangements(EntriesOf(cid)) :
              listing' = ListingResponse("ListLiveranking", "", "", pageNumber, pageSize,
                              "nil", LimitOffset(arr, size, offset), totalCount)
        /\ UNCHANGED <<participants, scales, runs, liverankings, lastOp>>

\* SQLLiverankingRepository.ListLiverankingByCategoryAndGender: rows and count
ListLiverankingByCategoryAndGender(cid, category, gender, pageNumber, pageSize) ==
    LET size == IF pageSize <= 0 THEN DefaultPageSize ELSE pageSize
        page == IF pageNumber <= 0 THEN DefaultPageNumber ELSE pageNumber
        matching == EntriesByCategoryAndGender(cid, category, gender)
        offset == (page - 1) * size
    IN  { [rows |-> LimitOffset(arr, size, offset), total |-> Cardinality(matching)] :
            arr \in SortedArrangements(matching) }

\* CompetitionService.GetLiveranking: the results it may return
GetLiverankingResults(cid, category, gender, pageNumber, pageSize) ==
    IF cid # CompetitionID
        THEN { [err |-> "repository.ErrCompetitionNotFound", rows |-> <<>>, total |-> 0] }
    ELSE IF category = "" /\ gender = ""
        THEN { [err |-> "service.ErrCategoryAndGender", rows |-> <<>>, total |-> 0] }
    ELSE { [err |-> "nil", rows |-> res.rows, total |-> res.total] :
             res \in ListLiverankingByCategoryAndGender(cid, category, gender,
                                                         pageNumber, pageSize) }

\* CompetitionService.GetLiveranking
GetLiveranking(cid, category, gender, pageNumber, pageSize) ==
    /\ UNCHANGED <<participants, scales, runs, liverankings, lastOp>>
    /\ \E res \in GetLiverankingResults(cid, category, gender, pageNumber, pageSize) :
          listing' = ListingResponse("GetLiveranking", category, gender, pageNumber,
                        pageSize, res.err, res.rows, res.total)

---------------------------------------------------------------------------
(* The read side: listing requests against a liveranking that CreateRun     *)
(* requests have filled and that does not change while the pages are read.  *)

PageNumbers == 0..MaxPage
PageSizes == {-1, 0, 1, 2}

\* (category, gender) of the filtered listing requests
ListFilters ==
    { [category |-> "junior", gender |-> "H"],
      [category |-> "senior", gender |-> "F"],
      [category |-> "", gender |-> ""] }

NoRun == [absent |-> "run"]

\* the run of a participant of the small competition: none, or one that
\* differs from the others in points, in penalty or in time
ListRunChoices ==
    { NoRun,
      RunData(TRUE, FALSE, FALSE, FALSE, FALSE, FALSE, 0, 30),
      RunData(FALSE, FALSE, FALSE, FALSE, FALSE, FALSE, 0, 30),
      RunData(FALSE, FALSE, FALSE, FALSE, FALSE, FALSE, 5, 30),
      RunData(FALSE, FALSE, FALSE, FALSE, FALSE, FALSE, 0, 45) }

\* the run of the second participant: none, or one that the first one's run
\* can beat on points, on penalty or on time, or tie with
SecondRunChoices ==
    { NoRun,
      RunData(FALSE, FALSE, FALSE, FALSE, FALSE, FALSE, 0, 30),
      RunData(FALSE, FALSE, FALSE, FALSE, FALSE, FALSE, 5, 30) }

\* the run of the third participant: none, or one that ties with a choice of
\* the others
ThirdRunChoices ==
    { NoRun, RunData(FALSE, FALSE, FALSE, FALSE, FALSE, FALSE, 0, 30) }

\* the competition with more entries than one default page holds
LargeField == 1..(DefaultPageSize + 1)
LargeFieldRun(d) ==
    RunData(d % 2 = 0, FALSE, FALSE, FALSE, FALSE, FALSE, d % 3, 30 + d)

ListScale == ScaleData(10, 0, 0, 0, 0, 0)

\* the tables after one CreateRun for every participant that has a run
AfterCreateRuns(registered, runOf) ==
    /\ participants = registered
    /\ scales = [k \in Categories \X Zones |-> IF k[2] = "A" THEN ListScale ELSE NoScale]
    /\ runs = { RunRow(d, 1, "A", runOf[d]) : d \in { x \in Dossards : runOf[x] # NoRun } }
    /\ liverankings = [d \in Dossards |->
          IF runOf[d] = NoRun THEN NoEntry
          ELSE [number_of_runs |-> 1,
                total_points |-> CreateRunPoints(runOf[d], ListScale),
                penality |-> runOf[d].penality,
                chrono_sec |-> runOf[d].chrono_sec]]
    /\ lastOp = NoResult
    /\ listing = NoListing

InitList ==
    /\ \/ \E p3 \in ParticipantChoices, r1 \in ListRunChoices, r2 \in SecondRunChoices,
             r3 \in ThirdRunChoices :
             AfterCreateRuns(
                 [d \in Dossards |->
                     IF d \in {1, 2} THEN [category |-> "junior", gender |-> "H"]
                     ELSE IF d = 3 THEN p3 ELSE NoParticipant],
                 [d \in Dossards |->
                     IF d = 1 THEN r1 ELSE IF d = 2 THEN r2 ELSE IF d = 3 THEN r3 ELSE NoRun])
       \/ AfterCreateRuns(
             [d \in Dossards |->
                 IF d \in LargeField THEN [category |-> "junior", gender |-> "H"]
                 ELSE NoParticipant],
             [d \in Dossards |-> IF d \in LargeField THEN LargeFieldRun(d) ELSE NoRun])
    /\ NewRateLimiter
    /\ calls = NoCalls

DoListLiveranking ==
    /\ \E pageNumber \in PageNumbers, pageSize \in PageSizes :
           ListLiveranking(CompetitionID, pageNumber, pageSize)
    /\ UNCHANGED rateVars
    /\ UNCHANGED calls

DoGetLiveranking ==
    /\ \E f \in ListFilters, pageNumber \in PageNumbers, pageSize \in PageSizes :
           GetLiveranking(CompetitionID, f.category, f.gender, pageNumber, pageSize)
    /\ UNCHANGED rateVars
    /\ UNCHANGED calls

DoGetLiverankingOfUnknownCompetition ==
    /\ GetLiveranking(CompetitionID + 1, "junior", "H", 1, 1)
    /\ UNCHANGED rateVars
    /\ UNCHANGED calls

NextList ==
    \/ DoListLiveranking
    \/ DoGetLiveranking
    \/ DoGetLiverankingOfUnknownCompetition

SpecList == InitList /\ [][NextList]_vars

---------------------------------------------------------------------------
(* Properties of the listing, checked under SpecList *)

Max(a, b) == IF a >= b THEN a ELSE b

\* the dossards whose entries the last listing request asked for
ListedDossards ==
    { d \in Dossards :
        /\ liverankings[d] # NoEntry
        /\ \/ listing.op = "ListLiveranking"
           \/ /\ participants[d].category = listing.category
              /\ participants[d].gender = listing.gender }

\* entry d ranks strictly before entry e: more points, then less penalty, then
\* more time
RanksBefore(d, e) ==
    LET a == liverankings[d]
        b == liverankings[e]
    IN  \/ a.total_points > b.total_points
        \/ a.total_points = b.total_points /\ a.penality < b.penality
        \/ a.total_points = b.total_points /\ a.penality = b.penality
              /\ a.chrono_sec > b.chrono_sec

\* rows are entries of the listed dossards with their current values, none
\* twice, in ranking order
RankedRows(rows) ==
    /\ \A i \in 1..Len(rows) :
          /\ rows[i].dossard \in ListedDossards
          /\ rows[i].number_of_runs = liverankings[rows[i].dossard].number_of_runs
          /\ rows[i].total_points = liverankings[rows[i].dossard].total_points
          /\ rows[i].penality = liverankings[rows[i].dossard].penality
          /\ rows[i].chrono_sec = liverankings[rows[i].dossard].chrono_sec
    /\ \A i, j \in 1..Len(rows) :
          i < j => /\ rows[i].dossard # rows[j].dossard
                   /\ ~RanksBefore(rows[j].dossard, rows[i].dossard)

\* C9: a listing answers the total count of the matching entries and, for page
\* p (1-based; 1 when p <= 0) and page size s (10 when the requested size is
\* <= 0), the entries at positions (p-1)*s+1 .. p*s of the matching entries
\* ordered by total_points descending, penality ascending, chrono_sec
\* descending.
C9_ListingOrderAndPaging ==
    (listing # NoListing /\ listing.err = "nil") =>
        LET size == IF listing.page_size <= 0 THEN 10 ELSE listing.page_size
            page == IF listing.page <= 0 THEN 1 ELSE listing.page
            first == (page - 1) * size
            rows == listing.rows
        IN  /\ listing.total = Cardinality(ListedDossards)
            /\ Len(rows) = Max(0, Min(size, Cardinality(ListedDossards) - first))
            /\ RankedRows(rows)
            /\ \A i \in 1..Len(rows) :
                  LET d == rows[i].dossard
                  IN  /\ Cardinality({ e \in ListedDossards : RanksBefore(e, d) })
                            <= first + i - 1
                      /\ Cardinality({ e \in ListedDossards : ~RanksBefore(d, e) })
                            >= first + i

\* eleven entries read with the default page size: ten on page 1, one on page 2
C9_Witness ==
    /\ listing # NoListing
    /\ listing.err = "nil"
    /\ listing.page_size <= 0
    /\ listing.total = 11
    /\ {1, 2} \subseteq DOMAIN listing.pages
    /\ Len(listing.pages[1]) = 10
    /\ Len(listing.pages[2]) = 1
    /\ \E i \in 1..9 :
          listing.pages[1][i].total_points > listing.pages[1][i + 1].total_points

\* C10: once the pages 1..ceil(total/page_size) of one request have been read
\* from an unchanged liveranking, their concatenation holds every matching
\* entry exactly once, in ranking order.
C10_PagesPartition ==
    (listing # NoListing /\ listing.err = "nil" /\ listing.total > 0) =>
        LET last == (listing.total + listing.size - 1) \div listing.size
            RECURSIVE Concat(_)
            Concat(k) == IF k = 0 THEN <<>> ELSE Concat(k - 1) \o listing.pages[k]
        IN  (1..last) \subseteq DOMAIN listing.pages =>
              /\ Len(Concat(last)) = listing.total
              /\ \A d \in ListedDossards :
                    Cardinality({ i \in 1..Len(Concat(last)) : Concat(last)[i].dossard = d }) = 1
              /\ RankedRows(Concat(last))

\* two entries equal on points, penalty and time, read one per page: both
\* pages hold the same entry and the other one is on neither
C10_EntryOnTwoPages ==
    /\ listing # NoListing
    /\ listing.err = "nil"
    /\ listing.size = 1
    /\ listing.total = 2
    /\ {1, 2} \subseteq DOMAIN listing.pages
    /\ Len(listing.pages[1]) = 1
    /\ Len(listing.pages[2]) = 1
    /\ listing.pages[1][1].dossard = listing.pages[2][1].dossard

---------------------------------------------------------------------------
(* The liveranking handler: roles, query parameters, ranks *)

\* a query parameter: absent, text that is no number, or a number
ParamMissing == [kind |-> "missing"]
ParamText == [kind |-> "text"]
ParamInt(n) == [kind |-> "int", value |-> n]

\* c.DefaultQuery(key, default)
DefaultQuery(param, default) == IF param = ParamMissing THEN default ELSE param

\* fmt.Sprintf("admin:%d", competitionID) and "referee:%d"
AdminRole(cid) == "admin:" \o ToString(cid)
RefereeRole(cid) == "referee:" \o ToString(cid)

\* middlewares.HasRole over the roles of the caller's token
HasRole(roles, role) == role \in roles

\* checkHasAccessToCompetition: nil, or ErrForbidden
checkHasAccessToCompetition(roles, cid) ==
    \/ HasRole(roles, AdminRole(cid))
    \/ HasRole(roles, RefereeRole(cid))
    \/ HasRole(roles, "admin:*")

\* faulty variant: the referee of the competition passes the admin check
checkRefereeAsAdmin(roles, cid) ==
    \/ HasRole(roles, AdminRole(cid))
    \/ HasRole(roles, RefereeRole(cid))
    \/ HasRole(roles, "admin:*")

\* checkHasAdminAccessToCompetition: nil, or ErrForbidden
checkHasAdminAccessToCompetition(roles, cid) ==
    \/ HasRole(roles, AdminRole(cid))
    \/ HasRole(roles, "admin:*")

\* earlier revision of getPagination (src/unnamed/part_032): page defaults to
\* 0, the size is read from limit only, and neither is brought into range
getPaginationUnchecked(pageParam, pageSizeParam, limitParam) ==
    LET page == DefaultQuery(pageParam, ParamInt(0))
        limit == DefaultQuery(limitParam, ParamInt(10))
    IN  [page |-> IF page.kind # "int" THEN 0 ELSE page.value,
         page_size |-> IF limit.kind # "int" THEN 10 ELSE limit.value]

\* getPagination: page and page size of the request, 1 and 10 when absent,
\* unparseable or below 1
getPagination(pageParam, pageSizeParam, limitParam) ==
    LET page == DefaultQuery(pageParam, ParamInt(1))
        pageSize == DefaultQuery(pageSizeParam, DefaultQuery(limitParam, ParamInt(10)))
    IN  [page |-> IF page.kind # "int" \/ page.value < 1 THEN 1 ELSE page.value,
         page_size |-> IF pageSize.kind # "int" \/ pageSize.value < 1
                         THEN 10 ELSE pageSize.value]

\* models.LiverankingResponse of the i-th row
RankedRow(row, rank) ==
    [rank |-> rank, dossard |-> row.dossard, category |-> row.category,
     gender |-> row.gender, number_of_runs |-> row.number_of_runs,
     total_points |-> row.total_points, penality |-> row.penality,
     chrono_sec |-> row.chrono_sec]

\* the response of Server.getLiveranking
RankingResponse(status, category, gender, page, pageSize, total, rankings) ==
    [op |-> "getLiveranking", status |-> status, category |-> category,
     gender |-> gender, page |-> page, page_size |-> pageSize, total |-> total,
     rankings |-> rankings]

\* Server.getLiveranking
getLiveranking(roles, cid, category, gender, pageParam, pageSizeParam, limitParam) ==
    LET pagination == getPagination(pageParam, pageSizeParam, limitParam)
        page == pagination.page
        pageSize == pagination.page_size
        baseRank == (page - 1) * pageSize + 1
    IN  /\ UNCHANGED <<participants, scales, runs, liverankings, lastOp>>
        /\ IF ~checkHasAccessToCompetition(roles, cid)
             THEN listing' = RankingResponse(403, category, gender, 0, 0, 0, <<>>)
           ELSE IF gender = "" \/ (gender # "H" /\ gender # "F")
             THEN listing' = RankingResponse(400, category, gender, 0, 0, 0, <<>>)
           ELSE \E res \in GetLiverankingResults(cid, category, gender, page, pageSize) :
                  listing' =
                    IF res.err = "repository.ErrCompetitionNotFound"
                      THEN RankingResponse(404, category, gender, 0, 0, 0, <<>>)
                    ELSE IF res.err # "nil"
                      THEN RankingResponse(500, category, gender, 0, 0, 0, <<>>)
                    ELSE RankingResponse(200, category, gender, page, pageSize, res.total,
                            [i \in 1..Len(res.rows) |->
                                RankedRow(res.rows[i], baseRank + (i - 1))])

\* roles of the callers
RoleSets ==
    { {}, {AdminRole(CompetitionID)}, {RefereeRole(CompetitionID)}, {"admin:*"},
      {AdminRole(CompetitionID + 1), "create:competition"} }

PageParams == { ParamMissing, ParamText } \cup { ParamInt(n) : n \in (-1)..MaxPage }
PageSizeParams == { ParamMissing, ParamText } \cup { ParamInt(n) : n \in 0..2 }
LimitParams == { ParamMissing, ParamInt(1) }

DoRankedListing ==
    /\ \E roles \in { {RefereeRole(CompetitionID)} },
          f \in { x \in ListFilters : x.gender # "" },
          pageParam \in PageParams, pageSizeParam \in PageSizeParams,
          limitParam \in LimitParams :
           getLiveranking(roles, CompetitionID, f.category, f.gender,
                          pageParam, pageSizeParam, limitParam)
    /\ UNCHANGED rateVars
    /\ UNCHANGED calls

DoRefusedListing ==
    /\ \E roles \in RoleSets, cid \in {CompetitionID, CompetitionID + 1},
          gender \in {"H", "", "X"} :
           getLiveranking(roles, cid, "junior", gender, ParamMissing, ParamMissing,
                          ParamMissing)
    /\ UNCHANGED rateVars
    /\ UNCHANGED calls

NextRank ==
    \/ DoRankedListing
    \/ DoRefusedListing

SpecRank == InitList /\ [][NextRank]_vars

---------------------------------------------------------------------------
(* Properties of the liveranking handler, checked under SpecRank *)

\* the dossards whose entries the last handler request asked for
RankedDossards ==
    { d \in Dossards :
        /\ liverankings[d] # NoEntry
        /\ participants[d].category = listing.category
        /\ participants[d].gender = listing.gender }

---------------------------------------------------------------------------
(* Bulk participant import: CompetitionService.AddParticipants *)

\* data rows of an import file, the header row not counted
MaxDataRows == 3

\* error messages, as the words of err.Error() in lower case
ErrorText(err) ==
    CASE err = "repository.ErrDuplicateParticipant" ->
             << "participant", "with", "this", "competition", "id", "and",
                "dossard", "number", "already", "exists" >>
      [] err = "repository.ErrCompetitionNotFound" -> << "competition", "not", "found" >>
      [] OTHER -> << >>

\* strings.Contains(strings.ToLower(err.Error()), word)
ErrorContains(err, word) ==
    \E i \in 1..Len(ErrorText(err)) : ErrorText(err)[i] = word

\* isParticipantAlreadyExistsError
isParticipantAlreadyExistsError(err) ==
    err # "nil" /\ ErrorContains(err, "duplicate")

\* strings.ToUpper on the gender cells of the files
ToUpper(s) ==
    CASE s = "h" -> "H"
      [] s = "f" -> "F"
      [] s = "x" -> "X"
      [] OTHER -> s

\* strings.HasSuffix(strings.ToLower(filename), suffix) for the file names used
HasLowerSuffix(filename, suffix) ==
    \/ filename = "participants.csv" /\ suffix = ".csv"
    \/ filename = "PARTICIPANTS.XLSX" /\ suffix = ".xlsx"

\* faulty variant: every gender cell accepted
ValidGenderAny(gender) == gender = gender

\* gender validation of a row: the import goes on only for "H" and "F"
ValidGender(gender) == gender = "H" \/ gender = "F"

\* SQLParticipantRepository.CreateParticipant on a table value: the primary
\* key (competition_id, dossard_number) refuses a second row
InsertParticipant(table, d, category, gender) ==
    IF table[d] # NoParticipant
        THEN [err |-> "repository.ErrDuplicateParticipant", table |-> table]
        ELSE [err |-> "nil",
              table |-> [table EXCEPT ![d] = [category |-> category, gender |-> gender]]]

\* outcome of an import: the error, the row it names (counted from 1, 0 for
\* none) and the participants table left behind
ImportResult(err, row, table) == [err |-> err, row |-> row, table |-> table]

\* the loop of AddParticipants over rows[i..]; rows[1] is the header
RECURSIVE ImportRows(_, _, _)
ImportRows(rows, i, table) ==
    IF i > Len(rows) THEN ImportResult("nil", 0, table)
    ELSE IF i = 1 THEN ImportRows(rows, i + 1, table)
    ELSE LET row == rows[i] IN
      IF Len(row) < 5 THEN ImportResult("invalid format on row", i, table)
      ELSE IF row[1].kind # "int" THEN ImportResult("invalid dossard number on row", i, table)
      ELSE LET gender == ToUpper(row[5]) IN
        IF ~ValidGender(gender) THEN ImportResult("invalid gender on row", i, table)
        ELSE LET created == InsertParticipant(table, row[1].value, row[2], gender) IN
          IF created.err # "nil"
            THEN IF isParticipantAlreadyExistsError(created.err)
                   THEN ImportRows(rows, i + 1, table)
                   ELSE ImportResult("failed to create participant", i, table)
            ELSE ImportRows(rows, i + 1, created.table)

\* what an import request leaves in lastOp: its outcome, its file and the
\* participants table it started from
ImportOutcome(err, row, rows, filename) ==
    [op |-> "AddParticipants", err |-> err, row |-> row, rows |-> rows,
     filename |-> filename, before |-> participants]

\* CompetitionService.AddParticipants
AddParticipants(cid, rows, filename) ==
    /\ UNCHANGED <<scales, runs, liverankings, listing>>
    /\ IF cid # CompetitionID
         THEN /\ lastOp' = ImportOutcome("repository.ErrCompetitionNotFound", 0, rows, filename)
              /\ UNCHANGED participants
       ELSE IF ~HasLowerSuffix(filename, ".csv") /\ ~HasLowerSuffix(filename, ".xlsx")
                /\ ~HasLowerSuffix(filename, ".xls")
         THEN /\ lastOp' = ImportOutcome("unsupported file format", 0, rows, filename)
              /\ UNCHANGED participants
       ELSE IF Len(rows) < 2
         THEN /\ lastOp' = ImportOutcome("service.ErrInvalidFileFormat", 0, rows, filename)
              /\ UNCHANGED participants
       ELSE LET r == ImportRows(rows, 1, participants)
            IN  /\ participants' = r.table
                /\ lastOp' = ImportOutcome(r.err, r.row, rows, filename)

\* cells of a data row: dossard, category, last name, first name, gender
DataRow(dossard, category, gender) ==
    << dossard, category, "Doe", "Jo", gender >>

\* first rows of the files: column titles, or a row that reads as a participant
HeaderRows ==
    { << ParamText, "category", "last name", "first name", "gender" >>,
      DataRow(ParamInt(4), "senior", "F") }

\* data rows of the files: three well-formed ones, and one for each row error
FileRows ==
    { DataRow(ParamInt(1), "junior", "H"),
      DataRow(ParamInt(2), "junior", "f"),
      DataRow(ParamInt(3), "senior", "F"),
      << ParamInt(4), "junior", "Doe", "Jo" >>,
      DataRow(ParamText, "junior", "H"),
      DataRow(ParamInt(4), "senior", "x") }

RECURSIVE RowSeqs(_)
RowSeqs(n) ==
    IF n = 0 THEN { << >> }
    ELSE LET shorter == RowSeqs(n - 1)
         IN  shorter \cup { Append(s, r) : s \in { t \in shorter : Len(t) = n - 1 }, r \in FileRows }

\* the files: a first row and up to MaxDataRows data rows
ImportFiles == { << h >> \o s : h \in HeaderRows, s \in RowSeqs(MaxDataRows) }

FileNames == { "participants.csv", "PARTICIPANTS.XLSX", "participants.txt" }

\* participants registered before the import
RegisteredBeforeImport == { {}, {1}, {3}, {1, 3} }

InitImport ==
    /\ \E registered \in RegisteredBeforeImport :
          participants = [d \in Dossards |->
                            IF d \in registered
                                THEN [category |-> "senior", gender |-> "F"]
                                ELSE NoParticipant]
    /\ scales = [k \in Categories \X Zones |-> NoScale]
    /\ runs = {}
    /\ liverankings = [d \in Dossards |-> NoEntry]
    /\ lastOp = NoResult
    /\ listing = NoListing
    /\ NewRateLimiter
    /\ calls = NoCalls

\* one import in a behaviour, on the table drawn by InitImport
DoImport ==
    /\ lastOp = NoResult
    /\ \E rows \in ImportFiles :
          AddParticipants(CompetitionID, rows, "participants.csv")
    /\ UNCHANGED rateVars
    /\ UNCHANGED calls

DoRefusedImport ==
    /\ lastOp = NoResult
    /\ \E cid \in {CompetitionID, CompetitionID + 1}, filename \in FileNames,
          rows \in { << >>, << DataRow(ParamInt(2), "junior", "H") >>,
                     << DataRow(ParamInt(4), "senior", "F"), DataRow(ParamInt(2), "junior", "H") >> } :
          AddParticipants(cid, rows, filename)
    /\ UNCHANGED rateVars
    /\ UNCHANGED calls

NextImport ==
    \/ DoImport
    \/ DoRefusedImport

SpecImport == InitImport /\ [][NextImport]_vars

---------------------------------------------------------------------------
(* Properties of the bulk import, checked under SpecImport *)

Imported == lastOp.op = "AddParticipants"

\* a row that passes the column, dossard and gender checks
WellFormedRow(row) ==
    /\ Len(row) >= 5
    /\ row[1].kind = "int"
    /\ ToUpper(row[5]) \in {"H", "F"}

\* the dossards of the well-formed rows among rows[from..to]
RowDossards(rows, from, to) ==
    { rows[j][1].value : j \in { k \in from..to : k <= Len(rows) /\ WellFormedRow(rows[k]) } }

\* the import got as far as reading rows
RowsRead ==
    /\ Imported
    /\ lastOp.err \notin { "repository.ErrCompetitionNotFound", "unsupported file format",
                           "service.ErrInvalidFileFormat" }

\* C12: importing a file made of a header row, two well-formed rows with new
\* dossards and one well-formed row whose dossard is already registered
\* returns no error, creates the two new participants and leaves the
\* registered one as it was.
C12_DuplicateSkipped ==
    (/\ RowsRead
     /\ Len(lastOp.rows) = 4
     /\ ~WellFormedRow(lastOp.rows[1])
     /\ \A j \in 2..4 : WellFormedRow(lastOp.rows[j])
     /\ Cardinality(RowDossards(lastOp.rows, 2, 4)) = 3
     /\ Cardinality({ d \in RowDossards(lastOp.rows, 2, 4) :
                        lastOp.before[d] # NoParticipant }) = 1)
    => /\ lastOp.err = "nil"
       /\ \A j \in 2..4 :
            LET d == lastOp.rows[j][1].value
            IN  IF lastOp.before[d] # NoParticipant
                  THEN participants[d] = lastOp.before[d]
                  ELSE participants[d] = [category |-> lastOp.rows[j][2],
                                          gender |-> ToUpper(lastOp.rows[j][5])]

\* the import of rows for dossards 2, 3 and 1, dossard 1 being registered,
\* created 2 and 3 and then failed on the third data row
C12_ImportAbortedOnDuplicate ==
    /\ RowsRead
    /\ Len(lastOp.rows) = 4
    /\ lastOp.before[1] # NoParticipant
    /\ lastOp.before[2] = NoParticipant
    /\ lastOp.before[3] = NoParticipant
    /\ lastOp.rows[2][1] = ParamInt(2)
    /\ lastOp.rows[3][1] = ParamInt(3)
    /\ lastOp.rows[4] = DataRow(ParamInt(1), "junior", "H")
    /\ participants[2] # NoParticipant
    /\ participants[3] # NoParticipant
    /\ lastOp.err = "failed to create participant"
    /\ lastOp.row = 4

\* index of the first data row that fails a column, dossard or gender check,
\* 0 when every data row is well formed
FirstBadRow(rows) ==
    LET bad == { j \in 2..Len(rows) : ~WellFormedRow(rows[j]) }
    IN  IF bad = {} THEN 0 ELSE CHOOSE j \in bad : \A k \in bad : j <= k

\* the error AddParticipants reports for a row that is not well formed
RowError(row) ==
    IF Len(row) < 5 THEN "invalid format on row"
    ELSE IF row[1].kind # "int" THEN "invalid dossard number on row"
    ELSE "invalid gender on row"

RowErrors ==
    { "invalid format on row", "invalid dossard number on row", "invalid gender on row" }

\* C13: an import whose file has a data row with fewer than 5 columns, an
\* unparseable dossard or a gender other than H and F ends with an error;
\* when the error is that row's, every row before it has its participant in
\* the table; nothing registered before the import is changed or removed; and
\* no participant is created from the bad row, from a row after it or from
\* the header row.
C13_RowErrorAborts ==
    (RowsRead /\ FirstBadRow(lastOp.rows) # 0) =>
        LET rows == lastOp.rows
            i == FirstBadRow(rows)
        IN  /\ lastOp.err # "nil"
            /\ lastOp.row \in 2..i
            /\ lastOp.err \in RowErrors =>
                  /\ lastOp.row = i
                  /\ lastOp.err = RowError(rows[i])
            /\ \A j \in 2..(lastOp.row - 1) :
                  LET d == rows[j][1].value
                  IN  /\ participants[d] # NoParticipant
                      /\ (lastOp.before[d] = NoParticipant /\ d \notin RowDossards(rows, 2, j - 1))
                            => participants[d] = [category |-> rows[j][2],
                                                  gender |-> ToUpper(rows[j][5])]
            /\ \A d \in Dossards :
                  /\ lastOp.before[d] # NoParticipant => participants[d] = lastOp.before[d]
                  /\ participants[d] # lastOp.before[d] => d \in RowDossards(rows, 2, i - 1)

\* a file whose first row reads as participant 4 and whose second data row
\* has gender "x": participant 2 of the row before is kept, participant 3 of
\* the row after and participant 4 are not created
C13_Witness ==
    /\ RowsRead
    /\ Len(lastOp.rows) = 4
    /\ lastOp.rows[1] = DataRow(ParamInt(4), "senior", "F")
    /\ lastOp.rows[2] = DataRow(ParamInt(2), "junior", "f")
    /\ lastOp.rows[3] = DataRow(ParamInt(4), "senior", "x")
    /\ lastOp.rows[4] = DataRow(ParamInt(3), "senior", "F")
    /\ lastOp.before[2] = NoParticipant
    /\ lastOp.before[3] = NoParticipant
    /\ lastOp.err = "invalid gender on row"
    /\ lastOp.row = 3
    /\ participants[2] = [category |-> "junior", gender |-> "F"]
    /\ participants[3] = NoParticipant
    /\ participants[4] = NoParticipant

---------------------------------------------------------------------------
(* Results export: CompetitionService.ExportCompetitionResults *)

\* runs a participant may have in one zone of the exported competitions
MaxZoneRuns == 3

\* the zone names of the exported competitions, in lexical order
ZoneOrder == << "A", "B", "C" >>

\* SQLScaleRepository.ListZones: the (category, zone) pairs of the scales
ListZones(cid) ==
    { k \in DOMAIN scales : cid = CompetitionID /\ scales[k] # NoScale }

\* sort.Strings on a set of zone names
SortStrings(S) ==
    LET RECURSIVE Pick(_)
        Pick(i) == IF i > Len(ZoneOrder) THEN << >>
                   ELSE (IF ZoneOrder[i] \in S THEN << ZoneOrder[i] >> ELSE << >>)
                          \o Pick(i + 1)
    IN  Pick(1)

\* getZonesForCategory: the zones of the category's scales, sorted
getZonesForCategory(cid, category) ==
    SortStrings({ k[2] : k \in { x \in ListZones(cid) : x[1] = category } })

\* getAllParticipants: the participants of the categories that have a scale
getAllParticipants(cid) ==
    { d \in Dossards :
        /\ participants[d] # NoParticipant
        /\ \E k \in ListZones(cid) : k[1] = participants[d].category }

\* groupParticipantsByCategoryGender: the keys of the groups
groupParticipantsByCategoryGender(ds) ==
    { << participants[d].category, participants[d].gender >> : d \in ds }

\* the runs of a set in ListRuns order (ORDER BY dossard, run_number)
RECURSIVE InRunNumberOrder(_)
InRunNumberOrder(R) ==
    IF R = {} THEN << >>
    ELSE LET first == CHOOSE r \in R : \A s \in R : r.run_number <= s.run_number
         IN  << first >> \o InRunNumberOrder(R \ {first})

\* runsByZone[zone] of one participant
runsByZone(cid, d, zone) ==
    InRunNumberOrder({ r \in RunsOf(cid, d) : r.zone = zone })

\* faulty variant: one run expected in every zone
expectedOneRunPerZone(zones) == IF Len(zones) = 2 THEN 1 ELSE 1

\* expectedRunsPerZone of generateSheetContent
expectedRunsPerZone(zones) == IF Len(zones) = 2 THEN 2 ELSE 1

\* ZoneResult values
ZoneResult(points, penalty, time) ==
    [is_error |-> FALSE, points |-> points, penalty |-> penalty, time |-> time]

ErrorZoneResult == [is_error |-> TRUE, points |-> 0, penalty |-> 0, time |-> 0]

\* a fresh ParticipantResult
NewParticipantResult(d) ==
    [dossard |-> d, zone_results |-> << >>, total_points |-> 0, total_penalty |-> 0,
     total_time |-> 0, has_error |-> FALSE]

\* faulty variant: the penalty of a run is left out of the total
ProcessRunWithoutPenalty(result, run, points) ==
    [result EXCEPT
        !.zone_results = Append(@, ZoneResult(points, run.penality, run.chrono_sec)),
        !.total_points = IF ~result.has_error THEN Add32(@, points) ELSE @,
        !.total_time = IF ~result.has_error THEN Add32(@, run.chrono_sec) ELSE @]

\* the body of "Process each run for this zone": the slot of the run, and the
\* totals while the result has no error yet
ProcessRun(result, run, points) ==
    [result EXCEPT
        !.zone_results = Append(@, ZoneResult(points, run.penality, run.chrono_sec)),
        !.total_points = IF ~result.has_error THEN Add32(@, points) ELSE @,
        !.total_penalty = IF ~result.has_error THEN Add32(@, run.penality) ELSE @,
        !.total_time = IF ~result.has_error THEN Add32(@, run.chrono_sec) ELSE @]

\* "Process each run for this zone"
RECURSIVE ProcessZoneRuns(_, _, _, _, _, _)
ProcessZoneRuns(result, zoneRuns, i, scaleMap, category, zone) ==
    IF i > Len(zoneRuns) THEN result
    ELSE ProcessZoneRuns(
            ProcessRun(result, zoneRuns[i],
                       calculateRunPoints(zoneRuns[i], scaleMap, category, zone)),
            zoneRuns, i + 1, scaleMap, category, zone)

\* "Calculate results for each zone": error slots for a zone whose number of
\* runs is not the expected one
RECURSIVE ProcessZones(_, _, _, _, _, _)
ProcessZones(result, cid, zones, zi, scaleMap, category) ==
    IF zi > Len(zones) THEN result
    ELSE LET zone == zones[zi]
             zoneRuns == runsByZone(cid, result.dossard, zone)
             expected == expectedRunsPerZone(zones)
         IN  IF Len(zoneRuns) # expected
               THEN ProcessZones(
                      [result EXCEPT
                          !.zone_results = @ \o [k \in 1..expected |-> ErrorZoneResult],
                          !.has_error = TRUE],
                      cid, zones, zi + 1, scaleMap, category)
               ELSE ProcessZones(
                      ProcessZoneRuns(result, zoneRuns, 1, scaleMap, category, zone),
                      cid, zones, zi + 1, scaleMap, category)

\* the ParticipantResult of one participant of a sheet
ParticipantResult(cid, d, zones, scaleMap) ==
    ProcessZones(NewParticipantResult(d), cid, zones, 1, scaleMap, participants[d].category)

\* faulty variant: the longer total time first
lessTimeDescending(a, b) ==
    IF a.has_error /\ ~b.has_error THEN FALSE
    ELSE IF ~a.has_error /\ b.has_error THEN TRUE
    ELSE IF a.total_points # b.total_points THEN a.total_points > b.total_points
    ELSE IF a.total_penalty # b.total_penalty THEN a.total_penalty < b.total_penalty
    ELSE a.total_time > b.total_time

\* the less function of the sort.Slice call
less(a, b) ==
    IF a.has_error /\ ~b.has_error THEN FALSE
    ELSE IF ~a.has_error /\ b.has_error THEN TRUE
    ELSE IF a.total_points # b.total_points THEN a.total_points > b.total_points
    ELSE IF a.total_penalty # b.total_penalty THEN a.total_penalty < b.total_penalty
    ELSE a.total_time < b.total_time

\* sort.Slice: the slice ends in an order in which no element is less than
\* one before it; the sort is not stable, elements that less does not
\* separate end in any order
SortSlice(S) ==
    LET RECURSIVE Arr(_)
        Arr(T) ==
            IF T = {} THEN { << >> }
            ELSE UNION { { << x >> \o rest : rest \in Arr(T \ {x}) } :
                           x \in { y \in T : \A z \in T : ~less(z, y) } }
    IN  Arr(S)

\* cells of a sheet
NumberCell(n) == [number |-> n]
ErrorCell == [text |-> "ERROR"]
\* the "Points Gagnés" cell: the value utils.GetPointsEarned looks up for a position
PointsEarnedCell(position) == [points_earned_for |-> position]

\* "Zone results": three cells for every slot
RECURSIVE ZoneCells(_)
ZoneCells(zoneResults) ==
    IF zoneResults = << >> THEN << >>
    ELSE LET zr == Head(zoneResults)
         IN  (IF zr.is_error
                THEN << ErrorCell, ErrorCell, ErrorCell >>
                ELSE << NumberCell(zr.points), NumberCell(zr.penalty), NumberCell(zr.time) >>)
             \o ZoneCells(Tail(zoneResults))

\* faulty variant: the totals written as numbers for every row
TotalCellsAsNumbers(result, position) ==
    << NumberCell(result.total_points), NumberCell(result.total_penalty),
       NumberCell(result.total_time), PointsEarnedCell(position) >>

\* "Totals": four cells
TotalCells(result, position) ==
    IF result.has_error
        THEN << ErrorCell, ErrorCell, ErrorCell, ErrorCell >>
        ELSE << NumberCell(result.total_points), NumberCell(result.total_penalty),
                NumberCell(result.total_time), PointsEarnedCell(position) >>

\* "Write data rows": the row of the i-th result
SheetRow(i, result) ==
    [position |-> i, dossard |-> result.dossard,
     zone_cells |-> ZoneCells(result.zone_results),
     total_cells |-> TotalCells(result, i)]

\* generateSheetContent: the sheets one call may produce for a group
generateSheetContent(cid, group, zones, scaleMap) ==
    LET members == { d \in getAllParticipants(cid) :
                        << participants[d].category, participants[d].gender >> = group }
        results == { ParticipantResult(cid, d, zones, scaleMap) : d \in members }
    IN  { [zones |-> zones, results |-> sorted,
           rows |-> [i \in 1..Len(sorted) |-> SheetRow(i, sorted[i])]] :
          sorted \in SortSlice(results) }

\* generateExcelFile: one sheet for every group
generateExcelFile(cid) ==
    LET groups == groupParticipantsByCategoryGender(getAllParticipants(cid))
        scaleMap == getAllScales(cid)
        sheetsOf == [g \in groups |->
                       generateSheetContent(cid, g, getZonesForCategory(cid, g[1]), scaleMap)]
        RECURSIVE Workbooks(_)
        Workbooks(gs) ==
            IF gs = {} THEN { << >> }
            ELSE LET g == CHOOSE x \in gs : TRUE
                 IN  { (g :> sheet) @@ w : sheet \in sheetsOf[g], w \in Workbooks(gs \ {g}) }
    IN  Workbooks(groups)

\* CompetitionService.ExportCompetitionResults
ExportCompetitionResults(cid) ==
    /\ UNCHANGED <<participants, scales, runs, liverankings, lastOp>>
    /\ IF cid # CompetitionID
         THEN listing' = [op |-> "ExportCompetitionResults",
                          err |-> "repository.ErrCompetitionNotFound", sheets |-> << >>]
         ELSE \E w \in generateExcelFile(cid) :
                 listing' = [op |-> "ExportCompetitionResults", err |-> "nil", sheets |-> w]

---------------------------------------------------------------------------
(* The export of a competition whose runs CreateRun requests have stored:   *)
(* participants 1, 2 and 3 are junior men, participant 4 is a senior lady.  *)

\* the scales of the junior category: one, two or three zones
ZoneSets == { {"A"}, {"A", "B"}, {"A", "B", "C"} }

\* the runs of one participant are alike; the first participant differs from
\* the second in points, in penalty or in time, or ties
ExportRunChoices ==
    { RunData(TRUE, FALSE, FALSE, FALSE, FALSE, FALSE, 0, 30),
      RunData(FALSE, FALSE, FALSE, FALSE, FALSE, FALSE, 0, 30),
      RunData(FALSE, FALSE, FALSE, FALSE, FALSE, FALSE, 5, 30),
      RunData(FALSE, FALSE, FALSE, FALSE, FALSE, FALSE, 0, 45) }

\* the runs of the second participant
SecondExportRun == RunData(FALSE, FALSE, FALSE, FALSE, FALSE, FALSE, 0, 30)

\* runs of the first participant in each zone
RunCounts(zoneSet) == [zoneSet -> 0..MaxZoneRuns]

\* runs of the second participant in each zone: none, one in every zone, two
\* in every zone
EvenRunCounts(zoneSet) == { [z \in zoneSet |-> n] : n \in 0..2 }

\* the zones in which a participant has runs, in the order of the run numbers
\* CreateRun gave: the runs of zone A first
RECURSIVE ZoneRunRows(_, _, _, _, _)
ZoneRunRows(d, data, counts, zi, next) ==
    IF zi > Len(ZoneOrder) THEN {}
    ELSE LET zone == ZoneOrder[zi]
             n == IF zone \in DOMAIN counts THEN counts[zone] ELSE 0
         IN  { RunRow(d, next + k, zone, data) : k \in 0..(n - 1) }
               \cup ZoneRunRows(d, data, counts, zi + 1, next + n)

\* the liveranking entry CreateRun has built from the runs of a participant
EntryOfRuns(R, scale) ==
    IF R = {} THEN NoEntry
    ELSE LET r == CHOOSE x \in R : TRUE
             n == Cardinality(R)
         IN  [number_of_runs |-> n,
              total_points |-> n * CreateRunPoints(r, scale),
              penality |-> n * r.penality,
              chrono_sec |-> n * r.chrono_sec]

InitExport ==
    /\ \E zoneSet \in ZoneSets, data1 \in ExportRunChoices :
         \E counts1 \in RunCounts(zoneSet), counts2 \in EvenRunCounts(zoneSet) :
           LET ledger == ZoneRunRows(1, data1, counts1, 1, 1)
                           \cup ZoneRunRows(2, SecondExportRun, counts2, 1, 1)
                           \cup { RunRow(4, 1, "A", data1) }
           IN  /\ participants = [d \in Dossards |->
                     IF d \in {1, 2, 3} THEN [category |-> "junior", gender |-> "H"]
                     ELSE IF d = 4 THEN [category |-> "senior", gender |-> "F"]
                     ELSE NoParticipant]
               /\ scales = [k \in Categories \X {"A", "B", "C"} |->
                     IF (k[1] = "junior" /\ k[2] \in zoneSet) \/ k = << "senior", "A" >>
                         THEN ListScale ELSE NoScale]
               /\ runs = ledger
               /\ liverankings = [d \in Dossards |->
                     EntryOfRuns({ r \in ledger : r.dossard = d }, ListScale)]
               /\ lastOp = NoResult
               /\ listing = NoListing
    /\ NewRateLimiter
    /\ calls = NoCalls

DoExport ==
    /\ ExportCompetitionResults(CompetitionID)
    /\ UNCHANGED rateVars
    /\ UNCHANGED calls

DoExportOfUnknownCompetition ==
    /\ ExportCompetitionResults(CompetitionID + 1)
    /\ UNCHANGED rateVars
    /\ UNCHANGED calls

NextExport ==
    \/ DoExport
    \/ DoExportOfUnknownCompetition

SpecExport == InitExport /\ [][NextExport]_vars

---------------------------------------------------------------------------
(* Properties of the export, checked under SpecExport *)

Exported ==
    /\ listing # NoListing
    /\ listing.op = "ExportCompetitionResults"
    /\ listing.err = "nil"

\* the zones that have a scale of the category
ZonesOfCategory(category) ==
    { k[2] : k \in { x \in DOMAIN scales : x[1] = category /\ scales[x] # NoScale } }

\* the number of runs of a participant in a zone
RunCount(d, zone) ==
    Cardinality({ r \in runs : r.dossard = d /\ r.zone = zone })

\* the number of runs the export wants in each zone of a category
ExpectedRuns(category) ==
    IF Cardinality(ZonesOfCategory(category)) = 2 THEN 2 ELSE 1

RowIsError(row) == row.total_cells[1] = ErrorCell

\* C19: the export expects 2 runs per zone for a category with exactly 2
\* zones and 1 run per zone for any other number of zones; a participant's
\* result is flagged as error exactly when the participant's number of runs
\* in some zone of the category is not the expected one.
C19_ErrorIffWrongRunCount ==
    Exported =>
        \A g \in DOMAIN listing.sheets :
            LET sheet == listing.sheets[g]
                zs == ZonesOfCategory(g[1])
            IN  /\ { sheet.zones[i] : i \in 1..Len(sheet.zones) } = zs
                /\ \A i \in 1..Len(sheet.results) :
                     LET res == sheet.results[i]
                     IN  /\ Len(res.zone_results) = Cardinality(zs) * ExpectedRuns(g[1])
                         /\ res.has_error <=>
                              \E z \in zs : RunCount(res.dossard, z) # ExpectedRuns(g[1])

\* two zones: participant 1 with three runs in zone A and two in B is flagged,
\* participant 2 with two runs in each zone is not
C19_Witness ==
    /\ Exported
    /\ ZonesOfCategory("junior") = {"A", "B"}
    /\ RunCount(1, "A") = 3 /\ RunCount(1, "B") = 2
    /\ RunCount(2, "A") = 2 /\ RunCount(2, "B") = 2
    /\ LET sheet == listing.sheets[<< "junior", "H" >>]
       IN  /\ sheet.results[1].dossard = 2 /\ ~sheet.results[1].has_error
           /\ \E i \in 2..3 : sheet.results[i].dossard = 1 /\ sheet.results[i].has_error

\* the totals a row shows
RowPoints(row) == row.total_cells[1].number
RowPenalty(row) == row.total_cells[2].number
RowTime(row) == row.total_cells[3].number

\* C15: in every sheet the rows flagged as error come after all other rows;
\* the other rows are in the order of total points descending, then total
\* penalty ascending, then total time ascending; the position of a row is
\* its index, counted from 1.
C15_SheetOrder ==
    Exported =>
        \A g \in DOMAIN listing.sheets :
            LET rows == listing.sheets[g].rows
            IN  /\ \A i \in 1..Len(rows) : rows[i].position = i
                /\ \A i, j \in 1..Len(rows) :
                     i < j =>
                       /\ RowIsError(rows[i]) => RowIsError(rows[j])
                       /\ (~RowIsError(rows[i]) /\ ~RowIsError(rows[j])) =>
                            \/ RowPoints(rows[i]) > RowPoints(rows[j])
                            \/ /\ RowPoints(rows[i]) = RowPoints(rows[j])
                               /\ RowPenalty(rows[i]) < RowPenalty(rows[j])
                            \/ /\ RowPoints(rows[i]) = RowPoints(rows[j])
                               /\ RowPenalty(rows[i]) = RowPenalty(rows[j])
                               /\ RowTime(rows[i]) <= RowTime(rows[j])

\* two zones: participant 2 (four runs of 30 s) at position 1, participant 1
\* (four runs of 45 s, same points and penalty) at position 2, and
\* participant 3, who has no run, flagged as error at position 3
C15_Witness ==
    /\ Exported
    /\ ZonesOfCategory("junior") = {"A", "B"}
    /\ LET rows == listing.sheets[<< "junior", "H" >>].rows
       IN  /\ Len(rows) = 3
           /\ rows[1].dossard = 2 /\ rows[1].position = 1 /\ ~RowIsError(rows[1])
           /\ rows[2].dossard = 1 /\ rows[2].position = 2 /\ ~RowIsError(rows[2])
           /\ RowPoints(rows[1]) = RowPoints(rows[2])
           /\ RowPenalty(rows[1]) = RowPenalty(rows[2])
           /\ RowTime(rows[1]) = 120 /\ RowTime(rows[2]) = 180
           /\ rows[3].dossard = 3 /\ RowIsError(rows[3])

\* the rows of a participant who has exactly one run in some zone of a
\* category with exactly two zones
OneRunInAZone(g, row) ==
    /\ Cardinality(ZonesOfCategory(g[1])) = 2
    /\ \E z \in ZonesOfCategory(g[1]) : RunCount(row.dossard, z) = 1

\* the row comes after every row that is not flagged as error
AfterValidRows(rows, i) ==
    \A j \in 1..Len(rows) : ~RowIsError(rows[j]) => j < i

C20_ErrorRowsHaveNoTotals ==
    Exported =>
        \A g \in DOMAIN listing.sheets :
            LET results == listing.sheets[g].results
            IN  \A i \in 1..Len(results) :
                  results[i].has_error =>
                     /\ results[i].total_points = 0
                     /\ results[i].total_penalty = 0
                     /\ results[i].total_time = 0

\* two zones: participant 1 has two runs in zone A and one in zone B,
\* participant 2 one run in each zone; both are flagged as error, the runs of
\* zone A stay in the totals of participant 1 and put its row first
C20_PartialSumsOrderErrorRows ==
    /\ Exported
    /\ ZonesOfCategory("junior") = {"A", "B"}
    /\ RunCount(1, "A") = 2 /\ RunCount(1, "B") = 1
    /\ RunCount(2, "A") = 1 /\ RunCount(2, "B") = 1
    /\ LET results == listing.sheets[<< "junior", "H" >>].results
       IN  /\ results[1].dossard = 1 /\ results[1].has_error
           /\ results[1].total_points = 20
           /\ results[1].total_time = 60
           /\ results[2].has_error /\ results[2].total_points = 0
           /\ results[3].has_error /\ results[3].total_points = 0

---------------------------------------------------------------------------
(* Scale requests against a competition that has liveranking entries *)

\* scale requests of the admin, on the zone the runs were made in
DoScaleRequest ==
    /\ \E category \in Categories, zone \in Zones, data \in ScaleChoices :
           \/ AddScale(CompetitionID, category, zone, data)
           \/ UpdateScale(CompetitionID, category, zone, data)
           \/ DeleteScale(CompetitionID, category, zone)
    /\ UNCHANGED rateVars
    /\ UNCHANGED calls

NextScale == DoScaleRequest

SpecScale == InitList /\ [][NextScale]_vars

\* C16: a DeleteScale or UpdateScale request, successful or not, leaves
\* every liveranking entry as it was: the totals awarded with the scale stay
\* after the scale is deleted or changed.
C16_ScaleChangeKeepsLiveranking ==
    [][lastOp'.op \in {"DeleteScale", "UpdateScale"} => liverankings' = liverankings]_vars

\* the scale of (junior, A) has been deleted, and participant 1, whose run in
\* zone A passed door 1, still has the 10 points of that run
C16_Witness ==
    /\ lastOp.op = "DeleteScale"
    /\ lastOp.err = "nil"
    /\ scales[<< "junior", "A" >>] = NoScale
    /\ participants[1] = [category |-> "junior", gender |-> "H"]
    /\ \E r \in runs : r.dossard = 1 /\ r.zone = "A" /\ r.door1
    /\ liverankings[1] # NoEntry
    /\ liverankings[1].total_points = 10

---------------------------------------------------------------------------
(* The run handlers: createRun, updateRun, deleteRun *)

\* a request the handler answers without calling the service
RunRequestRefused(op, status, roles, cid) ==
    [op |-> op, status |-> status, roles |-> roles, competition_id |-> cid,
     err |-> IF status = 403 THEN "ErrForbidden" ELSE "refused"]

\* ShouldBindJSON with binding:"required": a zero or empty required field
\* fails the binding
BindsRunInput(input) ==
    input.competition_id # 0 /\ input.dossard # 0 /\ input.zone # ""

BindsRunUpdateInput(input) ==
    BindsRunInput(input) /\ input.run_number # 0

\* Server.createRun
createRun(roles, input) ==
    IF ~BindsRunInput(input)
      THEN /\ lastOp' = RunRequestRefused("createRun", 400, roles, input.competition_id)
           /\ UNCHANGED <<participants, scales, runs, liverankings, listing>>
    ELSE IF ~checkHasAccessToCompetition(roles, input.competition_id)
      THEN /\ lastOp' = RunRequestRefused("createRun", 403, roles, input.competition_id)
           /\ UNCHANGED <<participants, scales, runs, liverankings, listing>>
    ELSE CreateRun(input.competition_id, input.dossard, 0, input.zone, input.data)

\* Server.updateRun
updateRun(roles, input) ==
    IF ~BindsRunUpdateInput(input)
      THEN /\ lastOp' = RunRequestRefused("updateRun", 400, roles, input.competition_id)
           /\ UNCHANGED <<participants, scales, runs, liverankings, listing>>
    ELSE IF ~checkHasAdminAccessToCompetition(roles, input.competition_id)
      THEN /\ lastOp' = RunRequestRefused("updateRun", 403, roles, input.competition_id)
           /\ UNCHANGED <<participants, scales, runs, liverankings, listing>>
    ELSE IF GetRun(input.competition_id, input.run_number, input.dossard) = {}
      THEN /\ lastOp' = RunRequestRefused("updateRun", 404, roles, input.competition_id)
           /\ UNCHANGED <<participants, scales, runs, liverankings, listing>>
    ELSE UpdateRun(input.competition_id, input.run_number, input.dossard, input.zone,
                   input.data)

\* Server.deleteRun: the three query parameters are required and must parse
deleteRun(roles, cidParam, dossardParam, runNumberParam) ==
    IF \E q \in {cidParam, dossardParam, runNumberParam} : q.kind # "int"
      THEN /\ lastOp' = RunRequestRefused("deleteRun", 400, roles, 0)
           /\ UNCHANGED <<participants, scales, runs, liverankings, listing>>
    ELSE IF ~checkHasAdminAccessToCompetition(roles, cidParam.value)
      THEN /\ lastOp' = RunRequestRefused("deleteRun", 403, roles, cidParam.value)
           /\ UNCHANGED <<participants, scales, runs, liverankings, listing>>
    ELSE DeleteRun(cidParam.value, runNumberParam.value, dossardParam.value)

\* bodies of the create requests
RunInputs ==
    { [competition_id |-> cid, dossard |-> d, zone |-> zone, data |-> data] :
        cid \in {CompetitionID, CompetitionID + 1}, d \in {0, 1}, zone \in {"A", ""},
        data \in { RunData(TRUE, FALSE, FALSE, FALSE, FALSE, FALSE, 0, 30) } }

\* bodies of the update requests
RunUpdateInputs ==
    { [competition_id |-> cid, dossard |-> 1, run_number |-> n, zone |-> "A", data |-> data] :
        cid \in {CompetitionID, CompetitionID + 1}, n \in 0..1, data \in LedgerRunChoices }

\* query parameters of the delete requests
RunNumberParams == { ParamMissing, ParamInt(1) }
CompetitionParams == { ParamInt(CompetitionID), ParamInt(CompetitionID + 1) }

DoCreateRunRequest ==
    /\ RunsCounted < MaxRuns
    /\ \E roles \in RoleSets, input \in RunInputs : createRun(roles, input)
    /\ UNCHANGED rateVars
    /\ UNCHANGED calls

DoUpdateRunRequest ==
    /\ \E roles \in RoleSets, input \in RunUpdateInputs : updateRun(roles, input)
    /\ UNCHANGED rateVars
    /\ UNCHANGED calls

DoDeleteRunRequest ==
    /\ \E roles \in RoleSets, cidParam \in CompetitionParams, runNumberParam \in RunNumberParams :
           deleteRun(roles, cidParam, ParamInt(1), runNumberParam)
    /\ UNCHANGED rateVars
    /\ UNCHANGED calls

NextRun ==
    \/ DoCreateRunRequest
    \/ DoUpdateRunRequest
    \/ DoDeleteRunRequest

SpecRun == InitCreate /\ [][NextRun]_vars

---------------------------------------------------------------------------
(* Properties of the run handlers, checked under SpecRun *)

\* the caller holds admin:<competition>, referee:<competition> or admin:*
MayCreate(roles, cid) ==
    \/ ("admin:" \o ToString(cid)) \in roles
    \/ ("referee:" \o ToString(cid)) \in roles
    \/ "admin:*" \in roles

\* the caller holds admin:<competition> or admin:*
MayChange(roles, cid) ==
    \/ ("admin:" \o ToString(cid)) \in roles
    \/ "admin:*" \in roles

\* the step answered 403 and changed neither the run ledger nor the liveranking
RefusedAsForbidden ==
    /\ lastOp'.status = 403
    /\ lastOp'.err = "ErrForbidden"
    /\ runs' = runs
    /\ liverankings' = liverankings

\* C17: a create request that binds, from a caller holding none of
\* admin:<competition>, referee:<competition>, admin:*, and an update or
\* delete request that binds or parses, from a caller holding neither
\* admin:<competition> nor admin:*, is answered 403 (forbidden) and changes
\* neither the run ledger nor the liveranking; a request that does not bind
\* changes nothing either.
C17_RunRolesRequired ==
    [][\A roles \in RoleSets :
         /\ \A input \in RunInputs :
              (~MayCreate(roles, input.competition_id) /\ createRun(roles, input)) =>
                 /\ runs' = runs /\ liverankings' = liverankings
                 /\ BindsRunInput(input) => RefusedAsForbidden
         /\ \A input \in RunUpdateInputs :
              (~MayChange(roles, input.competition_id) /\ updateRun(roles, input)) =>
                 /\ runs' = runs /\ liverankings' = liverankings
                 /\ BindsRunUpdateInput(input) => RefusedAsForbidden
         /\ \A cidParam \in CompetitionParams, runNumberParam \in RunNumberParams :
              (~MayChange(roles, cidParam.value)
                 /\ deleteRun(roles, cidParam, ParamInt(1), runNumberParam)) =>
                 /\ runs' = runs /\ liverankings' = liverankings
                 /\ runNumberParam.kind = "int" => RefusedAsForbidden
      ]_vars

\* the referee of the competition, who may create runs, asked to update or
\* delete run 1 of participant 1: the answer was 403 and the run is still in
\* the ledger
C17_Witness ==
    /\ lastOp.op \in {"updateRun", "deleteRun"}
    /\ lastOp.status = 403
    /\ lastOp.roles = {"referee:1"}
    /\ lastOp.competition_id = CompetitionID
    /\ \E r \in runs : r.dossard = 1 /\ r.run_number = 1
    /\ liverankings[1] # NoEntry

---------------------------------------------------------------------------
(* The rate limiter at work: RateLimiter.Limit in front of PUT /login and  *)
(* POST /auth/forgot-password, the login handler's reset, the clock and    *)
(* the cleanup goroutine.  isAllowed, ResetAttempts and cleanup each hold  *)
(* the limiter's mutex for their whole body, so each is one step.          *)

\* attempts, exists := rl.attempts[key]; a missing key reads as no attempts
storedAttempts(key) == IF key \in DOMAIN attempts THEN attempts[key] ELSE << >>

\* rl.attempts[key] = list
StoreAttempts(key, list) ==
    [k \in DOMAIN attempts \cup {key} |-> IF k = key THEN list ELSE attempts[k]]

\* the attempts younger than the window: now.Sub(attempt) < window
validAttemptsWithin(list, window) ==
    SelectSeq(list, LAMBDA attempt : now - attempt < window)

\* isAllowed: the answer and the map it leaves behind
isAllowed(endpoint, clientIP) ==
    IF endpoint \notin DOMAIN limits
    THEN [allowed |-> TRUE, attempts |-> attempts]
    ELSE LET limit == limits[endpoint]
             key == LimiterKey(endpoint, clientIP)
             validAttempts == validAttemptsWithin(storedAttempts(key), limit.Window)
         IN  IF Len(validAttempts) >= limit.MaxAttempts
             THEN [allowed |-> FALSE, attempts |-> StoreAttempts(key, validAttempts)]
             ELSE [allowed |-> TRUE,
                   attempts |-> StoreAttempts(key, Append(validAttempts, now))]

\* ResetAttempts: delete(rl.attempts, key)
ResetAttempts(endpoint, clientIP) ==
    [k \in DOMAIN attempts \ {LimiterKey(endpoint, clientIP)} |-> attempts[k]]

\* key[:len(endpoint)] == endpoint, for the keys isAllowed builds
HasEndpointPrefix(key, endpoint) ==
    \E ip \in ClientIPs : key = LimiterKey(endpoint, ip)

\* cleanup's window of a key: the matching endpoint's, zero if none matches
maxWindow(key) ==
    IF \E endpoint \in DOMAIN limits : HasEndpointPrefix(key, endpoint)
    THEN limits[CHOOSE endpoint \in DOMAIN limits : HasEndpointPrefix(key, endpoint)].Window
    ELSE 0

\* the middleware: a refused request is answered 429 and aborted, an
\* admitted one goes on to its handler
Limit(endpoint, clientIP) ==
    LET result == isAllowed(endpoint, clientIP)
        key == LimiterKey(endpoint, clientIP)
    IN  /\ attempts' = result.attempts
        /\ admitted' = IF result.allowed /\ key \in DOMAIN admitted
                       THEN [admitted EXCEPT ![key] = Append(@, now)]
                       ELSE admitted
        /\ pending' = IF result.allowed /\ endpoint = "login"
                      THEN [pending EXCEPT ![clientIP] = @ + 1]
                      ELSE pending
        /\ lastOp' = [op |-> "Limit", status |-> IF result.allowed THEN 0 ELSE 429]
        /\ UNCHANGED now

\* the login handler's end for an admitted request: a successful login
\* resets the limiter, a failed one (400, 401, 500) leaves it alone
login(clientIP, success) ==
    /\ pending[clientIP] > 0
    /\ pending' = [pending EXCEPT ![clientIP] = @ - 1]
    /\ attempts' = IF success THEN ResetAttempts("login", clientIP) ELSE attempts
    /\ lastOp' = [op |-> "login", status |-> IF success THEN 200 ELSE 401]
    /\ UNCHANGED <<now, admitted>>

\* one pass of the cleanup goroutine's ticker
cleanup ==
    /\ now >= CleanupInterval
    /\ LET kept == [key \in DOMAIN attempts |->
                       SelectSeq(attempts[key],
                                 LAMBDA attempt :
                                     now - attempt < maxWindow(key) + CleanupBuffer)]
       IN  attempts' = [key \in { k \in DOMAIN attempts : Len(kept[k]) # 0 } |-> kept[key]]
    /\ UNCHANGED <<now, pending, admitted, lastOp>>

\* the minutes at which something happens: the start, the last minute of
\* the login window, its end, the end of the forgot-password window and
\* the cutoff of cleanup for it
Instants ==
    { 0, LoginWindow - 1, LoginWindow, ForgotPasswordWindow,
      ForgotPasswordWindow + CleanupBuffer }

\* the requests that arrive: logins of one address and forgot-password
\* requests of another
LimitedRequests ==
    { <<"login", "10.0.0.1">>, <<"forgot-password", "10.0.0.2">> }

AdmittedCount ==
    LET RECURSIVE Sum(_)
        Sum(S) == IF S = {} THEN 0
                  ELSE LET k == CHOOSE x \in S : TRUE
                       IN  Len(admitted[k]) + Sum(S \ {k})
    IN  Sum(DOMAIN admitted)

InitRate ==
    /\ participants = [d \in Dossards |-> NoParticipant]
    /\ scales = [k \in Categories \X Zones |-> NoScale]
    /\ runs = {}
    /\ liverankings = [d \in Dossards |-> NoEntry]
    /\ lastOp = NoResult
    /\ listing = NoListing
    /\ NewRateLimiter
    /\ calls = NoCalls

DoLimit ==
    /\ \E request \in LimitedRequests :
          /\ isAllowed(request[1], request[2]).allowed => AdmittedCount < MaxAdmitted
          /\ Limit(request[1], request[2])
    /\ UNCHANGED tableVars
    /\ UNCHANGED calls

DoLoginSucceeds ==
    /\ \E clientIP \in ClientIPs : login(clientIP, TRUE)
    /\ UNCHANGED tableVars
    /\ UNCHANGED calls

DoLoginFails ==
    /\ \E clientIP \in ClientIPs : login(clientIP, FALSE)
    /\ UNCHANGED tableVars
    /\ UNCHANGED calls

DoCleanup ==
    /\ cleanup
    /\ UNCHANGED tableVars
    /\ UNCHANGED calls

Tick ==
    /\ \E t \in Instants : t > now /\ now' = t
    /\ UNCHANGED <<attempts, pending, admitted, lastOp>>
    /\ UNCHANGED tableVars
    /\ UNCHANGED calls

NextRate ==
    \/ DoLimit
    \/ DoLoginSucceeds
    \/ DoLoginFails
    \/ DoCleanup
    \/ Tick

SpecRate == InitRate /\ [][NextRate]_vars

\* the requests of one key let through from the i-th admitted one on,
\* less than a window later
AdmittedInWindowFrom(endpoint, clientIP, i) ==
    LET history == admitted[LimiterKey(endpoint, clientIP)]
    IN  { j \in 1 .. Len(history) :
            /\ history[j] >= history[i]
            /\ history[j] - history[i] < limits[endpoint].Window }

\* C18: for every rate-limited endpoint and every client IP, the requests
\* the limiter admits within any interval of length Window never number
\* more than MaxAttempts (5 per 5 minutes for login, 3 per hour for
\* forgot-password).
C18_AdmittedWithinLimit ==
    \A endpoint \in DOMAIN limits, clientIP \in ClientIPs :
        \A i \in 1 .. Len(admitted[LimiterKey(endpoint, clientIP)]) :
            Cardinality(AdmittedInWindowFrom(endpoint, clientIP, i))
                <= limits[endpoint].MaxAttempts

\* six login requests of one address were let through within five
\* minutes, the last one just now, after a successful login of that
\* address had emptied its history
C18_SixLoginsAdmitted ==
    /\ lastOp = [op |-> "Limit", status |-> 0]
    /\ Len(admitted[LimiterKey("login", "10.0.0.1")]) = LoginMaxAttempts + 1
    /\ Cardinality(AdmittedInWindowFrom("login", "10.0.0.1", 1)) = LoginMaxAttempts + 1
    /\ Len(attempts[LimiterKey("login", "10.0.0.1")]) = 1

---------------------------------------------------------------------------
(* The recompute path: SQLLiverankingRepository.RecalculateLiveranking     *)
(* called for a participant whose runs, and the scales they are joined     *)
(* with, were changed by the run and scale requests.                       *)

\* one call of SQLLiverankingRepository.RecalculateLiveranking
Recalculate(cid, d) ==
    /\ liverankings' = RecalculateLiveranking(cid, d)
    /\ lastOp' = Result("RecalculateLiveranking", d, 0, 0, "nil")
    /\ UNCHANGED <<participants, scales, runs, listing>>

\* the participant the recompute requests name
RecalcDossard == 1

DoRecalcCreateRun ==
    /\ Cardinality(runs) < MaxRuns
    /\ RunsCounted < MaxRuns
    /\ \E zone \in Zones, data \in LedgerRunChoices :
           CreateRun(CompetitionID, RecalcDossard, 0, zone, data)
    /\ UNCHANGED rateVars
    /\ UNCHANGED calls

DoRecalcUpdateRun ==
    /\ \E n \in 1 .. MaxRuns, zone \in Zones, data \in LedgerRunChoices :
           UpdateRun(CompetitionID, n, RecalcDossard, zone, data)
    /\ UNCHANGED rateVars
    /\ UNCHANGED calls

DoRecalcDeleteRun ==
    /\ \E n \in 1 .. MaxRuns : DeleteRun(CompetitionID, n, RecalcDossard)
    /\ UNCHANGED rateVars
    /\ UNCHANGED calls

DoRecalcDeleteScale ==
    /\ \E zone \in Zones : DeleteScale(CompetitionID, "junior", zone)
    /\ UNCHANGED rateVars
    /\ UNCHANGED calls

DoRecalculate ==
    /\ Recalculate(CompetitionID, RecalcDossard)
    /\ UNCHANGED rateVars
    /\ UNCHANGED calls

NextRecalc ==
    \/ DoRecalcCreateRun
    \/ DoRecalcUpdateRun
    \/ DoRecalcDeleteRun
    \/ DoRecalcDeleteScale
    \/ DoRecalculate

SpecRecalc == InitCreate /\ [][NextRecalc]_vars

\* the participant's runs whose (category, zone) has a scale
ScaledRunsOf(d) ==
    { r \in RunsOf(CompetitionID, d) :
        scales[<<participants[d].category, r.zone>>] # NoScale }

\* the sum of the door points of a set of runs of one participant
SumPoints(R, d) ==
    LET RECURSIVE Sum(_)
        Sum(S) == IF S = {} THEN 0
                  ELSE LET r == CHOOSE x \in S : TRUE
                       IN  DoorSum(r, scales[<<participants[d].category, r.zone>>])
                             + Sum(S \ {r})
    IN  Sum(R)

Recalculated(d) ==
    /\ lastOp.op = "RecalculateLiveranking"
    /\ lastOp.dossard = d

\* C21: RecalculateLiveranking never fails because of a missing scale: a run
\* whose (category, zone) has no scale is skipped and adds nothing to the
\* recomputed points, penalty and chrono totals, which are the sums over the
\* runs that have a scale; creating that same run through RunService.CreateRun
\* is an error that stores nothing.
C21_MissingScaleSkipped ==
    [][/\ Recalculated(RecalcDossard)' =>
            /\ lastOp'.err = "nil"
            /\ LET R == ScaledRunsOf(RecalcDossard)
               IN  IF R = {} THEN liverankings'[RecalcDossard] = NoEntry
                   ELSE /\ liverankings'[RecalcDossard] # NoEntry
                        /\ liverankings'[RecalcDossard].total_points
                             = SumPoints(R, RecalcDossard)
                        /\ liverankings'[RecalcDossard].penality = SumField(R, "penality")
                        /\ liverankings'[RecalcDossard].chrono_sec
                             = SumField(R, "chrono_sec")
       /\ \A zone \in Zones, data \in LedgerRunChoices :
            (/\ CreateRun(CompetitionID, RecalcDossard, 0, zone, data)
             /\ scales[<<participants[RecalcDossard].category, zone>>] = NoScale)
                => /\ lastOp'.err = "repository.ErrScaleNotFound"
                   /\ runs' = runs
                   /\ liverankings' = liverankings]_vars

\* a recompute has just skipped a run that carries a penalty and has no scale,
\* and kept another run of the participant
C21_Witness ==
    /\ Recalculated(RecalcDossard)
    /\ liverankings[RecalcDossard] # NoEntry
    /\ \E r \in RunsOf(CompetitionID, RecalcDossard) \ ScaledRunsOf(RecalcDossard) :
           r.penality > 0
    /\ ScaledRunsOf(RecalcDossard) # {}

\* C26: after RecalculateLiveranking for a participant, whatever the scales
\* (a scale may have been deleted, a run's zone changed), the stored
\* number_of_runs is the number of runs the participant has in the ledger,
\* and the entry is deleted only when the participant has no run at all.
C26_RunCountMatchesLedger ==
    [][Recalculated(RecalcDossard)' =>
          LET R == RunsOf(CompetitionID, RecalcDossard)
          IN  IF R = {} THEN liverankings'[RecalcDossard] = NoEntry
              ELSE /\ liverankings'[RecalcDossard] # NoEntry
                   /\ liverankings'[RecalcDossard].number_of_runs = Cardinality(R)]_vars

\* a recompute has just deleted the entry of a participant who has runs in
\* the ledger, none of them with a scale
C26_EntryDeletedDespiteRuns ==
    /\ Recalculated(RecalcDossard)
    /\ RunsOf(CompetitionID, RecalcDossard) # {}
    /\ ScaledRunsOf(RecalcDossard) = {}
    /\ liverankings[RecalcDossard] = NoEntry

---------------------------------------------------------------------------
(* The incremental and the recompute path side by side: run creations      *)
(* against an unchanging registry and scale table, and recomputes.         *)

DoAgreeRecalculate ==
    /\ \E d \in LedgerDossards : Recalculate(CompetitionID, d)
    /\ UNCHANGED rateVars
    /\ UNCHANGED calls

NextAgree ==
    \/ CreateOnlyRun
    \/ CreateOnlyInvalidRun
    \/ DoAgreeRecalculate

SpecAgree == InitCreate /\ [][NextAgree]_vars

\* C25: after any sequence of successful sequential CreateRun calls for a
\* participant, with scales and categories unchanged and no update or
\* delete, RecalculateLiveranking leaves the participant's liveranking entry
\* (number_of_runs, total_points, penality, chrono_sec) exactly as the
\* incremental upserts left it.
C25_RecomputeAgreesWithIncrement ==
    [][lastOp'.op = "RecalculateLiveranking" => liverankings' = liverankings]_vars

\* a recompute has just run for a participant with two or more runs that
\* scored points
C25_Witness ==
    \E d \in LedgerDossards :
        /\ Recalculated(d)
        /\ Cardinality(RunsOf(CompetitionID, d)) >= 2
        /\ liverankings[d] # NoEntry
        /\ liverankings[d].number_of_runs = Cardinality(RunsOf(CompetitionID, d))
        /\ liverankings[d].total_points > 0
        /\ liverankings[d].penality > 0

---------------------------------------------------------------------------
(* The export next to the recompute: a competition in which the third      *)
(* participant has the expected runs in every zone that has a scale, and   *)
(* may have more runs in zones whose scale was deleted after the runs      *)
(* were created.                                                           *)

\* the runs of the third participant
ThirdExportRun == RunData(TRUE, FALSE, FALSE, FALSE, FALSE, FALSE, 5, 45)

\* one run in each of the given zones, numbered from next on
StrayRunRows(d, data, zoneSet, next) ==
    ZoneRunRows(d, data, [z \in zoneSet |-> 1], 1, next)

InitExportStray ==
    /\ \E zoneSet \in ZoneSets, data1 \in ExportRunChoices :
         \E counts1 \in EvenRunCounts(zoneSet),
            strays \in SUBSET ({"A", "B", "C"} \ zoneSet) :
           LET expected == IF Cardinality(zoneSet) = 2 THEN 2 ELSE 1
               wanted == ZoneRunRows(3, ThirdExportRun, [z \in zoneSet |-> expected], 1, 1)
               ledger == ZoneRunRows(1, data1, counts1, 1, 1)
                           \cup wanted
                           \cup StrayRunRows(3, ThirdExportRun, strays,
                                             Cardinality(wanted) + 1)
                           \cup { RunRow(4, 1, "A", data1) }
           IN  /\ participants = [d \in Dossards |->
                     IF d \in {1, 2, 3} THEN [category |-> "junior", gender |-> "H"]
                     ELSE IF d = 4 THEN [category |-> "senior", gender |-> "F"]
                     ELSE NoParticipant]
               /\ scales = [k \in Categories \X {"A", "B", "C"} |->
                     IF (k[1] = "junior" /\ k[2] \in zoneSet) \/ k = << "senior", "A" >>
                         THEN ListScale ELSE NoScale]
               /\ runs = ledger
               /\ liverankings = [d \in Dossards |->
                     EntryOfRuns({ r \in ledger : r.dossard = d }, ListScale)]
               /\ lastOp = NoResult
               /\ listing = NoListing
    /\ NewRateLimiter
    /\ calls = NoCalls

DoStrayExport ==
    /\ ExportCompetitionResults(CompetitionID)
    /\ UNCHANGED rateVars
    /\ UNCHANGED calls

DoStrayRecalculate ==
    /\ \E d \in {1, 2, 3, 4} : Recalculate(CompetitionID, d)
    /\ UNCHANGED rateVars
    /\ UNCHANGED calls

NextExportStray ==
    \/ DoStrayExport
    \/ DoStrayRecalculate

SpecExportStray == InitExportStray /\ [][NextExportStray]_vars

\* C24: for every participant whose export row is not flagged as error, the
\* row's total points, total penalty and total time are the total_points,
\* penality and chrono_sec RecalculateLiveranking computes for the
\* participant from the same participants, runs and scales.
C24_ExportTotalsAreRecomputeTotals ==
    Exported =>
        \A g \in DOMAIN listing.sheets :
            \A i \in 1..Len(listing.sheets[g].rows) :
                LET row == listing.sheets[g].rows[i]
                    entry == RecalculateLiveranking(CompetitionID, row.dossard)[row.dossard]
                IN  ~RowIsError(row) =>
                        /\ entry # NoEntry
                        /\ RowPoints(row) = entry.total_points
                        /\ RowPenalty(row) = entry.penality
                        /\ RowTime(row) = entry.chrono_sec

\* the third participant has a run in a zone without a scale; the export
\* shows a row without error for the participant and the recompute has just
\* stored the same totals, counting fewer runs than the ledger holds
C24_Witness ==
    /\ Exported
    /\ Recalculated(3)
    /\ liverankings[3] # NoEntry
    /\ liverankings[3].number_of_runs < Cardinality(RunsOf(CompetitionID, 3))
    /\ \E i \in 1..Len(listing.sheets[<< "junior", "H" >>].rows) :
          LET row == listing.sheets[<< "junior", "H" >>].rows[i]
          IN  /\ row.dossard = 3
              /\ ~RowIsError(row)
              /\ RowPoints(row) = liverankings[3].total_points
              /\ RowPoints(row) > 0
              /\ RowPenalty(row) = liverankings[3].penality
              /\ RowPenalty(row) > 0
              /\ RowTime(row) = liverankings[3].chrono_sec

---------------------------------------------------------------------------
(* Calls statement by statement.  RunService.CreateRun and                 *)
(* RecalculateLiveranking send their SQL statements one at a time on the   *)
(* connection pool, with no transaction around them: every statement is    *)
(* one step, and the statements of other calls may run in between.         *)

\* a call of RunService.CreateRun that has not sent a statement yet
CreateRunCall(d, num, zone, data) ==
    [op |-> "CreateRun", pc |-> "GetParticipant", competition_id |-> CompetitionID,
     dossard |-> d, requested |-> num, run_number |-> num, zone |-> zone,
     data |-> data, category |-> "", scale |-> NoScale, exists |-> FALSE,
     inserted |-> FALSE, failed |-> "none", err |-> "nil"]

\* a call of RecalculateLiveranking that has not sent a statement yet
RecalculateCall(d) ==
    [op |-> "RecalculateLiveranking", pc |-> "SelectRuns",
     competition_id |-> CompetitionID, dossard |-> d, totals |-> NoEntry,
     exists |-> FALSE, failed |-> "none", err |-> "nil"]

\* return err
Return(c, err) == [c EXCEPT !.pc = "done", !.err = err]

\* the run a CreateRun call inserts
RowOfCall(c) == RunRow(c.dossard, c.run_number, c.zone, c.data)

\* what the statement steps leave alone
callFrame == <<participants, scales, lastOp, listing, attempts, now, pending, admitted>>

\* RunService.CreateRun: the check of the run data and participantRepo.GetParticipant
CreateRunGetParticipant(p) ==
    LET c == calls[p]
        participant == GetParticipant(c.competition_id, c.dossard)
    IN  /\ c.pc = "GetParticipant"
        /\ calls' = [calls EXCEPT ![p] =
              IF c.competition_id <= 0 \/ c.dossard <= 0 \/ c.zone = ""
                THEN Return(c, "service.ErrInvalidRunData")
              ELSE IF participant = NoParticipant
                THEN Return(c, "repository.ErrParticipantNotFound")
              ELSE [c EXCEPT !.pc = "GetScale", !.category = participant.category]]
        /\ UNCHANGED <<runs, liverankings>>
        /\ UNCHANGED callFrame

\* RunService.CreateRun: scaleRepo.GetScale
CreateRunGetScale(p) ==
    LET c == calls[p]
        scale == GetScale(c.competition_id, c.category, c.zone)
    IN  /\ c.pc = "GetScale"
        /\ calls' = [calls EXCEPT ![p] =
              IF scale = NoScale THEN Return(c, "repository.ErrScaleNotFound")
              ELSE [c EXCEPT !.pc = "CheckParticipant", !.scale = scale]]
        /\ UNCHANGED <<runs, liverankings>>
        /\ UNCHANGED callFrame

\* SQLRunRepository.CreateRun: "verify that the participant exists"
RepoCheckParticipant(p) ==
    LET c == calls[p]
    IN  /\ c.pc = "CheckParticipant"
        /\ calls' = [calls EXCEPT ![p] =
              IF GetParticipant(c.competition_id, c.dossard) = NoParticipant
                THEN Return(c, "repository.ErrParticipantNotFoundForRun")
              ELSE [c EXCEPT !.pc = IF c.run_number <= 0 THEN "SelectMaxRunNumber"
                                    ELSE "InsertRun"]]
        /\ UNCHANGED <<runs, liverankings>>
        /\ UNCHANGED callFrame

\* SQLRunRepository.CreateRun: SELECT COALESCE(MAX(run_number), 0) and
\* run.SetRunNumber(maxRunNumber + 1)
RepoSelectMaxRunNumber(p) ==
    LET c == calls[p]
    IN  /\ c.pc = "SelectMaxRunNumber"
        /\ calls' = [calls EXCEPT ![p] =
              [c EXCEPT !.pc = "InsertRun",
                        !.run_number = MaxRunNumber(c.competition_id, c.dossard) + 1]]
        /\ UNCHANGED <<runs, liverankings>>
        /\ UNCHANGED callFrame

\* faulty variant: a runs table without its primary key
RunKeyNeverTaken(cid, n, d) == cid # cid

\* PRIMARY KEY (competition_id, run_number, dossard) of the runs table
RunKeyTaken(cid, n, d) == GetRun(cid, n, d) # {}

\* SQLRunRepository.CreateRun: INSERT INTO runs, a duplicate key gives
\* ErrDuplicateRun
RepoInsertRun(p) ==
    LET c == calls[p]
    IN  /\ c.pc = "InsertRun"
        /\ IF RunKeyTaken(c.competition_id, c.run_number, c.dossard)
             THEN /\ calls' = [calls EXCEPT ![p] = Return(c, "repository.ErrDuplicateRun")]
                  /\ UNCHANGED runs
             ELSE /\ calls' = [calls EXCEPT ![p] =
                        [c EXCEPT !.pc = "SelectExists", !.inserted = TRUE]]
                  /\ runs' = runs \cup {RowOfCall(c)}
        /\ UNCHANGED liverankings
        /\ UNCHANGED callFrame

\* faulty variant: the existence check waits while another call is between
\* its own check and its update-or-insert, as inside a transaction that
\* locks the participant's entry
UpsertSelectExistsSerialized(p) ==
    LET c == calls[p]
        exists == liverankings[c.dossard] # NoEntry
    IN  /\ c.pc = "SelectExists"
        /\ \A q \in Callers \ {p} :
              calls[q].pc \notin {"SelectParticipant", "InsertLiveranking", "UpdateLiveranking"}
        /\ calls' = [calls EXCEPT ![p] =
              [c EXCEPT !.exists = exists,
                        !.pc = IF exists THEN "UpdateLiveranking"
                               ELSE "SelectParticipant"]]
        /\ UNCHANGED <<runs, liverankings>>
        /\ UNCHANGED callFrame

\* UpsertLiveranking: SELECT EXISTS(... FROM liverankings ...)
UpsertSelectExists(p) ==
    LET c == calls[p]
        exists == liverankings[c.dossard] # NoEntry
    IN  /\ c.pc = "SelectExists"
        /\ calls' = [calls EXCEPT ![p] =
              [c EXCEPT !.exists = exists,
                        !.pc = IF exists THEN "UpdateLiveranking"
                               ELSE "SelectParticipant"]]
        /\ UNCHANGED <<runs, liverankings>>
        /\ UNCHANGED callFrame

\* UpsertLiveranking: UPDATE liverankings SET number_of_runs = number_of_runs + 1, ...
\* (an UPDATE that matches no row changes nothing and is no error)
UpsertUpdate(p) ==
    LET c == calls[p]
        d == c.dossard
        points == CreateRunPoints(c.data, c.scale)
    IN  /\ c.pc = "UpdateLiveranking"
        /\ liverankings' =
              IF liverankings[d] = NoEntry THEN liverankings
              ELSE [liverankings EXCEPT ![d] =
                      [number_of_runs |-> @.number_of_runs + 1,
                       total_points |-> @.total_points + points,
                       penality |-> @.penality + c.data.penality,
                       chrono_sec |-> @.chrono_sec + c.data.chrono_sec]]
        /\ calls' = [calls EXCEPT ![p] = Return(c, "nil")]
        /\ UNCHANGED runs
        /\ UNCHANGED callFrame

\* UpsertLiveranking: "Check if participant exists"
UpsertSelectParticipant(p) ==
    LET c == calls[p]
    IN  /\ c.pc = "SelectParticipant"
        /\ calls' = [calls EXCEPT ![p] =
              IF GetParticipant(c.competition_id, c.dossard) = NoParticipant
                THEN Return(c, "repository.ErrParticipantNotFound")
              ELSE [c EXCEPT !.pc = "InsertLiveranking"]]
        /\ UNCHANGED <<runs, liverankings>>
        /\ UNCHANGED callFrame

\* UpsertLiveranking: INSERT INTO liverankings; the table's primary key
\* (competition_id, dossard_number) refuses a second row
UpsertInsert(p) ==
    LET c == calls[p]
        d == c.dossard
    IN  /\ c.pc = "InsertLiveranking"
        /\ IF liverankings[d] # NoEntry
             THEN /\ calls' = [calls EXCEPT ![p] = Return(c, "mysql: duplicate entry")]
                  /\ UNCHANGED liverankings
             ELSE /\ calls' = [calls EXCEPT ![p] = Return(c, "nil")]
                  /\ liverankings' = [liverankings EXCEPT ![d] =
                        [number_of_runs |-> 1,
                         total_points |-> CreateRunPoints(c.data, c.scale),
                         penality |-> c.data.penality,
                         chrono_sec |-> c.data.chrono_sec]]
        /\ UNCHANGED runs
        /\ UNCHANGED callFrame

\* RecalculateLiveranking: the SELECT over runs, participants and scales and
\* the loop over its rows
RecalculateSelectRuns(p) ==
    LET c == calls[p]
        totals == RecalculateLiveranking(c.competition_id, c.dossard)[c.dossard]
    IN  /\ c.pc = "SelectRuns"
        /\ calls' = [calls EXCEPT ![p] =
              [c EXCEPT !.totals = totals,
                        !.pc = IF totals = NoEntry THEN "DeleteLiveranking"
                               ELSE "SelectExists"]]
        /\ UNCHANGED <<runs, liverankings>>
        /\ UNCHANGED callFrame

\* RecalculateLiveranking: "If no runs found, delete the liveranking entry"
RecalculateDelete(p) ==
    LET c == calls[p]
    IN  /\ c.pc = "DeleteLiveranking"
        /\ liverankings' = [liverankings EXCEPT ![c.dossard] = NoEntry]
        /\ calls' = [calls EXCEPT ![p] = Return(c, "nil")]
        /\ UNCHANGED runs
        /\ UNCHANGED callFrame

\* RecalculateLiveranking: "Check if liveranking exists"
RecalculateSelectExists(p) ==
    LET c == calls[p]
        exists == liverankings[c.dossard] # NoEntry
    IN  /\ c.pc = "SelectExists"
        /\ calls' = [calls EXCEPT ![p] =
              [c EXCEPT !.exists = exists,
                        !.pc = IF exists THEN "UpdateLiveranking"
                               ELSE "InsertLiveranking"]]
        /\ UNCHANGED <<runs, liverankings>>
        /\ UNCHANGED callFrame

\* RecalculateLiveranking: UPDATE liverankings SET number_of_runs = ?, ...
RecalculateUpdate(p) ==
    LET c == calls[p]
        d == c.dossard
    IN  /\ c.pc = "UpdateLiveranking"
        /\ liverankings' = IF liverankings[d] = NoEntry THEN liverankings
                           ELSE [liverankings EXCEPT ![d] = c.totals]
        /\ calls' = [calls EXCEPT ![p] = Return(c, "nil")]
        /\ UNCHANGED runs
        /\ UNCHANGED callFrame

\* RecalculateLiveranking: "Insert new liveranking if it doesn't exist"
RecalculateInsert(p) ==
    LET c == calls[p]
        d == c.dossard
    IN  /\ c.pc = "InsertLiveranking"
        /\ IF liverankings[d] # NoEntry
             THEN /\ calls' = [calls EXCEPT ![p] = Return(c, "mysql: duplicate entry")]
                  /\ UNCHANGED liverankings
             ELSE /\ calls' = [calls EXCEPT ![p] = Return(c, "nil")]
                  /\ liverankings' = [liverankings EXCEPT ![d] = c.totals]
        /\ UNCHANGED runs
        /\ UNCHANGED callFrame

CreateCallers == { p \in Callers : calls[p].pc # "idle" /\ calls[p].op = "CreateRun" }

RecalculateCallers ==
    { p \in Callers : calls[p].pc # "idle" /\ calls[p].op = "RecalculateLiveranking" }

StepGetParticipant == \E p \in CreateCallers : CreateRunGetParticipant(p)
StepGetScale == \E p \in CreateCallers : CreateRunGetScale(p)
StepCheckParticipant == \E p \in CreateCallers : RepoCheckParticipant(p)
StepSelectMaxRunNumber == \E p \in CreateCallers : RepoSelectMaxRunNumber(p)
StepInsertRun == \E p \in CreateCallers : RepoInsertRun(p)
StepUpsertSelectExists == \E p \in CreateCallers : UpsertSelectExists(p)
StepUpsertUpdate == \E p \in CreateCallers : UpsertUpdate(p)
StepUpsertSelectParticipant == \E p \in CreateCallers : UpsertSelectParticipant(p)
StepUpsertInsert == \E p \in CreateCallers : UpsertInsert(p)
StepRecalculateSelectRuns == \E p \in RecalculateCallers : RecalculateSelectRuns(p)
StepRecalculateDelete == \E p \in RecalculateCallers : RecalculateDelete(p)
StepRecalculateSelectExists == \E p \in RecalculateCallers : RecalculateSelectExists(p)
StepRecalculateUpdate == \E p \in RecalculateCallers : RecalculateUpdate(p)
StepRecalculateInsert == \E p \in RecalculateCallers : RecalculateInsert(p)

NextCall ==
    \/ StepGetParticipant
    \/ StepGetScale
    \/ StepCheckParticipant
    \/ StepSelectMaxRunNumber
    \/ StepInsertRun
    \/ StepUpsertSelectExists
    \/ StepUpsertUpdate
    \/ StepUpsertSelectParticipant
    \/ StepUpsertInsert
    \/ StepRecalculateSelectRuns
    \/ StepRecalculateDelete
    \/ StepRecalculateSelectExists
    \/ StepRecalculateUpdate
    \/ StepRecalculateInsert

\* the run data of the two concurrent CreateRun requests and of the run
\* already in the ledger
FirstCallRun == RunData(TRUE, FALSE, FALSE, FALSE, FALSE, FALSE, 0, 30)
SecondCallRun == RunData(FALSE, FALSE, FALSE, FALSE, FALSE, FALSE, 5, 45)
PriorRun == RunData(TRUE, FALSE, FALSE, FALSE, FALSE, FALSE, 2, 20)

\* the calls in flight together
CallerPairs == {{"create1", "create2"}, {"create1", "recalculate"}}

CallOf(p) ==
    IF p = "create1" THEN CreateRunCall(RecalcDossard, 0, "A", FirstCallRun)
    ELSE IF p = "create2" THEN CreateRunCall(RecalcDossard, 0, "A", SecondCallRun)
    ELSE RecalculateCall(RecalcDossard)

\* participant 1 with a scale for zone A, with or without a run already
\* counted in the liveranking; two calls arrive together
InitRace ==
    /\ participants = [d \in Dossards |->
                          IF d = RecalcDossard THEN [category |-> "junior", gender |-> "H"]
                          ELSE NoParticipant]
    /\ \E data \in ScaleChoices :
          scales = [k \in Categories \X Zones |->
                            IF k = <<"junior", "A">> THEN data ELSE NoScale]
    /\ \E prior \in BOOLEAN :
          /\ runs = IF prior THEN {RunRow(RecalcDossard, 1, "A", PriorRun)} ELSE {}
          /\ liverankings = [d \in Dossards |->
                IF prior /\ d = RecalcDossard
                  THEN [number_of_runs |-> 1,
                        total_points |-> CreateRunPoints(PriorRun, scales[<<"junior", "A">>]),
                        penality |-> PriorRun.penality,
                        chrono_sec |-> PriorRun.chrono_sec]
                ELSE NoEntry]
    /\ lastOp = NoResult
    /\ listing = NoListing
    /\ NewRateLimiter
    /\ \E active \in CallerPairs :
          calls = [p \in Callers |-> IF p \in active THEN CallOf(p) ELSE IdleCall]

SpecRace == InitRace /\ [][NextCall]_vars

---------------------------------------------------------------------------
(* Two calls at once: the race between the existence check and the insert *)

\* the calls of CreateRun that saw no liveranking entry and have not yet
\* sent their INSERT
ObservedAbsent ==
    { p \in CreateCallers :
        /\ calls[p].pc \in {"SelectParticipant", "InsertLiveranking"}
        /\ ~calls[p].exists }

\* C22: the existence check of UpsertLiveranking and the update-or-insert
\* that follows it are separate statements with no transaction around them:
\* a call that has reached its existence check is never held back by another
\* call that sits between its own check and its insert, so two concurrent run
\* creations for a participant without an entry can both observe the entry
\* as absent before either inserts it.
C22_ExistenceCheckNeverWaits ==
    \A p \in CreateCallers :
        calls[p].pc = "SelectExists" => ENABLED UpsertSelectExists(p)

\* both run creations have seen the entry absent and neither has inserted it
C22_BothObservedAbsent ==
    /\ ObservedAbsent = {"create1", "create2"}
    /\ liverankings[RecalcDossard] = NoEntry
    /\ calls["create1"].inserted /\ calls["create2"].inserted
    /\ Cardinality(RunsOf(CompetitionID, RecalcDossard)) = 2

\* the entry of participant d is what its stored runs add up to
EntryMatchesLedger(d) ==
    LET R == RunsOf(CompetitionID, d)
        entry == liverankings[d]
    IN  IF R = {} THEN entry = NoEntry
        ELSE /\ entry # NoEntry
             /\ entry.number_of_runs = Cardinality(R)
             /\ entry.total_points = SumPoints(R, d)
             /\ entry.penality = SumField(R, "penality")
             /\ entry.chrono_sec = SumField(R, "chrono_sec")

Finished(p) == calls[p].pc = "done"

\* C27: once two concurrent CreateRun calls for the same participant have
\* both finished, the liveranking entry's number_of_runs is the number of the
\* participant's runs in the ledger and its totals are the sums over those runs.
C27_EntryMatchesLedgerAfterBoth ==
    (Finished("create1") /\ Finished("create2")) => EntryMatchesLedger(RecalcDossard)

\* both calls stored their run, the second INSERT INTO liverankings was
\* refused by the primary key, and the entry counts one run of two
C27_SecondRunUncounted ==
    /\ Finished("create1") /\ Finished("create2")
    /\ calls["create1"].inserted /\ calls["create2"].inserted
    /\ \E p \in {"create1", "create2"} : calls[p].err = "mysql: duplicate entry"
    /\ Cardinality(RunsOf(CompetitionID, RecalcDossard)) = 2
    /\ liverankings[RecalcDossard] # NoEntry
    /\ liverankings[RecalcDossard].number_of_runs = 1

\* C28: concurrent CreateRun calls without an explicit run_number never leave
\* two runs with the same (competition, dossard, run_number) in the ledger:
\* when two calls computed the same next number, exactly one INSERT succeeded
\* and the other call returned ErrDuplicateRun and stored no run.
C28_RunNumbersStayUnique ==
    /\ \A r1, r2 \in runs :
          (r1.dossard = r2.dossard /\ r1.run_number = r2.run_number) => r1 = r2
    /\ \A p, q \in CreateCallers :
          ( /\ p # q
            /\ Finished(p) /\ Finished(q)
            /\ calls[p].requested <= 0 /\ calls[q].requested <= 0
            /\ calls[p].run_number > 0
            /\ calls[p].run_number = calls[q].run_number )
          => LET refused == { x \in {p, q} : calls[x].err = "repository.ErrDuplicateRun" }
             IN  /\ Cardinality(refused) = 1
                 /\ \A x \in refused :
                       ~calls[x].inserted /\ RowOfCall(calls[x]) \notin runs
                 /\ \A x \in {p, q} \ refused :
                       calls[x].inserted /\ RowOfCall(calls[x]) \in runs

\* both calls read the same maximum; one run is stored and the other call
\* ended with ErrDuplicateRun
C28_SameNumberComputed ==
    /\ Finished("create1") /\ Finished("create2")
    /\ calls["create1"].run_number = calls["create2"].run_number
    /\ calls["create1"].run_number > 0
    /\ calls["create2"].err = "repository.ErrDuplicateRun"
    /\ RowOfCall(calls["create1"]) \in runs

\* C29: when RecalculateLiveranking runs concurrently with a CreateRun for
\* the same participant, once both have finished the entry accounts for the
\* new run: the recompute has not overwritten it with totals read before the
\* new run was inserted and counted.
C29_EntryAccountsForNewRun ==
    (Finished("create1") /\ calls["create1"].inserted /\ Finished("recalculate"))
        => LET R == RunsOf(CompetitionID, RecalcDossard)
               entry == liverankings[RecalcDossard]
           IN  /\ entry # NoEntry
               /\ entry.number_of_runs >= Cardinality(R)
               /\ entry.total_points >= SumPoints(R, RecalcDossard)
               /\ entry.penality >= SumField(R, "penality")
               /\ entry.chrono_sec >= SumField(R, "chrono_sec")

\* the recompute read one run, CreateRun then stored and counted a second
\* one, and the recompute's UPDATE put the entry back to one run
C29_StaleTotalsWritten ==
    /\ Finished("create1") /\ calls["create1"].err = "nil"
    /\ Finished("recalculate") /\ calls["recalculate"].err = "nil"
    /\ calls["recalculate"].totals # NoEntry
    /\ calls["recalculate"].totals.number_of_runs = 1
    /\ liverankings[RecalcDossard] = calls["recalculate"].totals
    /\ Cardinality(RunsOf(CompetitionID, RecalcDossard)) = 2

---------------------------------------------------------------------------
(* Store failures.  A statement sent to the store may come back with an    *)
(* error (a lost connection, a timeout): the call that sent it sees err    *)
(* and the tables are as they were before the statement.  Calls run one    *)
(* after the other here.                                                   *)

\* the statement a call is about to send returns an error, and the call
\* returns it: every `if err != nil { return ... }` of RunService.CreateRun,
\* SQLRunRepository.CreateRun, UpsertLiveranking and RecalculateLiveranking
StoreFails(p) ==
    LET c == calls[p]
    IN  /\ c.pc \notin {"idle", "done"}
        /\ calls' = [calls EXCEPT ![p] = [Return(c, "store error") EXCEPT !.failed = c.pc]]
        /\ UNCHANGED <<runs, liverankings>>
        /\ UNCHANGED callFrame

\* a request arrives while no other call is in flight
StartCall(p) ==
    /\ calls[p].pc = "idle"
    /\ \A q \in Callers : calls[q].pc \in {"idle", "done"}
    /\ calls' = [calls EXCEPT ![p] = CallOf(p)]
    /\ UNCHANGED <<runs, liverankings>>
    /\ UNCHANGED callFrame

\* the store calls of ExportCompetitionResults whose error is returned
ReturnedExportFailures ==
    {"GetCompetition", "getAllParticipants.ListZones", "ListParticipantsByCategory",
     "ListRuns", "getAllScales.ListZones"}

\* the store calls of ExportCompetitionResults whose error ends in `continue`
SkippedExportFailures == {"getAllScales.GetScale", "getZonesForCategory.ListZones"}

\* getAllScales when GetScale fails for the scale `failed`: "continue"
getAllScalesWithout(cid, failed) ==
    LET scaleMap == getAllScales(cid)
    IN  [ key \in DOMAIN scaleMap \ {ScaleKey(failed[1], failed[2])} |-> scaleMap[key] ]

\* generateExcelFile with the index of scales it was given, when
\* getZonesForCategory fails for the groups `skipped`: "continue"
generateExcelFileSkipping(cid, scaleMap, skipped) ==
    LET groups == groupParticipantsByCategoryGender(getAllParticipants(cid)) \ skipped
        sheetsOf == [g \in groups |->
                       generateSheetContent(cid, g, getZonesForCategory(cid, g[1]), scaleMap)]
        RECURSIVE WorkbooksOf(_)
        WorkbooksOf(gs) ==
            IF gs = {} THEN { << >> }
            ELSE LET g == CHOOSE x \in gs : TRUE
                 IN  { (g :> sheet) @@ w : sheet \in sheetsOf[g], w \in WorkbooksOf(gs \ {g}) }
    IN  WorkbooksOf(groups)

\* what an export or a listing answered, and the store call that failed
\* while it ran
ReadResult(op, failed, err) == [op |-> op, failed |-> failed, err |-> err]

\* CompetitionService.ExportCompetitionResults when the store call `failed`
\* returns an error
ExportCompetitionResultsFailing(cid, failed) ==
    LET op == "ExportCompetitionResults"
        present == { k \in DOMAIN scales : GetScale(cid, k[1], k[2]) # NoScale }
        groups == groupParticipantsByCategoryGender(getAllParticipants(cid))
    IN  /\ UNCHANGED <<participants, scales, runs, liverankings>>
        /\ IF failed \in ReturnedExportFailures
             THEN /\ listing' = [op |-> op, err |-> "store error", sheets |-> << >>]
                  /\ lastOp' = ReadResult(op, failed, "store error")
           ELSE IF failed = "getAllScales.GetScale"
             THEN \E k \in present :
                    \E w \in generateExcelFileSkipping(cid, getAllScalesWithout(cid, k), {}) :
                       /\ listing' = [op |-> op, err |-> "nil", sheets |-> w]
                       /\ lastOp' = ReadResult(op, failed, "nil")
           ELSE \E g \in groups :
                    \E w \in generateExcelFileSkipping(cid, getAllScales(cid), {g}) :
                       /\ listing' = [op |-> op, err |-> "nil", sheets |-> w]
                       /\ lastOp' = ReadResult(op, failed, "nil")

\* the store calls of CompetitionService.GetLiveranking
ListingFailures == {"GetCompetition", "ListLiverankingByCategoryAndGender"}

\* CompetitionService.GetLiveranking when the store call `failed` returns an
\* error
GetLiverankingFailing(cid, category, gender, failed) ==
    /\ listing' = [op |-> "GetLiveranking", err |-> "store error", sheets |-> << >>]
    /\ lastOp' = ReadResult("GetLiveranking", failed, "store error")
    /\ UNCHANGED <<participants, scales, runs, liverankings>>

StepStoreFails == \E p \in Callers : StoreFails(p)

StepStartCall == \E p \in Callers : StartCall(p)

DoExportFailing ==
    /\ \A q \in Callers : calls[q].pc \in {"idle", "done"}
    /\ \E failed \in ReturnedExportFailures \cup SkippedExportFailures :
          ExportCompetitionResultsFailing(CompetitionID, failed)
    /\ UNCHANGED rateVars
    /\ UNCHANGED calls

DoGetLiverankingFailing ==
    /\ \A q \in Callers : calls[q].pc \in {"idle", "done"}
    /\ \E failed \in ListingFailures :
          GetLiverankingFailing(CompetitionID, "junior", "H", failed)
    /\ UNCHANGED rateVars
    /\ UNCHANGED calls

\* participant 1 with a scale for zone A, with or without a run already
\* counted in the liveranking, and no call in flight
InitFault ==
    /\ participants = [d \in Dossards |->
                          IF d = RecalcDossard THEN [category |-> "junior", gender |-> "H"]
                          ELSE NoParticipant]
    /\ \E data \in ScaleChoices :
          scales = [k \in Categories \X Zones |->
                            IF k = <<"junior", "A">> THEN data ELSE NoScale]
    /\ \E prior \in BOOLEAN :
          /\ runs = IF prior THEN {RunRow(RecalcDossard, 1, "A", PriorRun)} ELSE {}
          /\ liverankings = [d \in Dossards |->
                IF prior /\ d = RecalcDossard
                  THEN [number_of_runs |-> 1,
                        total_points |-> CreateRunPoints(PriorRun, scales[<<"junior", "A">>]),
                        penality |-> PriorRun.penality,
                        chrono_sec |-> PriorRun.chrono_sec]
                ELSE NoEntry]
    /\ lastOp = NoResult
    /\ listing = NoListing
    /\ NewRateLimiter
    /\ calls = NoCalls

NextFault ==
    \/ StepStartCall
    \/ StepStoreFails
    \/ DoExportFailing
    \/ DoGetLiverankingFailing
    \/ StepGetParticipant
    \/ StepGetScale
    \/ StepCheckParticipant
    \/ StepSelectMaxRunNumber
    \/ StepInsertRun
    \/ StepUpsertSelectExists
    \/ StepUpsertUpdate
    \/ StepUpsertSelectParticipant
    \/ StepUpsertInsert
    \/ StepRecalculateSelectRuns
    \/ StepRecalculateDelete
    \/ StepRecalculateSelectExists
    \/ StepRecalculateUpdate
    \/ StepRecalculateInsert

SpecFault == InitFault /\ [][NextFault]_vars

\* C23: no operation of the core swallows a store failure: when a store call
\* made by CreateRun, RecalculateLiveranking, a liveranking listing or
\* ExportCompetitionResults has returned an error, the operation has returned
\* an error to its caller and not a successful result.
C23_StoreFailureIsReturned ==
    /\ \A p \in Callers :
          (calls[p].pc = "done" /\ calls[p].failed # "none") => calls[p].err # "nil"
    /\ (lastOp.op \in {"ExportCompetitionResults", "GetLiveranking"}
          /\ lastOp.failed # "none") => lastOp.err # "nil"

\* GetScale failed inside getAllScales and the export answered a workbook
C23_ExportAnsweredDespiteFailure ==
    /\ lastOp.op = "ExportCompetitionResults"
    /\ lastOp.failed = "getAllScales.GetScale"
    /\ lastOp.err = "nil"
    /\ listing.err = "nil"
    /\ listing.sheets # << >>

\* C30: CreateRun is all-or-nothing for the ledger and the liveranking: when
\* it has returned an error, also one of UpsertLiveranking after the run was
\* inserted, the ledger holds no run that is missing from the liveranking
\* totals.
C30_FailedCreateRunStoresNothing ==
    \A p \in CreateCallers :
        (Finished(p) /\ calls[p].err # "nil")
            => /\ RowOfCall(calls[p]) \notin runs
               /\ EntryMatchesLedger(calls[p].dossard)

\* CreateRun inserted its run, a statement of UpsertLiveranking failed, the
\* call returned the error and the run is in the ledger without being counted
C30_RunStoredButUncounted ==
    \E p \in CreateCallers :
        /\ Finished(p)
        /\ calls[p].err = "store error"
        /\ calls[p].failed \in {"SelectExists", "UpdateLiveranking",
                                "SelectParticipant", "InsertLiveranking"}
        /\ RowOfCall(calls[p]) \in runs
        /\ ~EntryMatchesLedger(calls[p].dossard)

====
